---- MODULE Spec2Model ----
(***************************************************************************)
(* Model of the STAAD std-file codec of DataFusr/fem_STAADutils.py: the    *)
(* range compressor and clause wrapper (_check_duplicate_entries), the     *)
(* line wrapper (check_length_of_line), the row packer (_check_row_length),*)
(* the line joiner and the joint, unit and load-case decoders of           *)
(* RawStdFile, the axis normaliser convert_direction, the completeness     *)
(* check check_required_information, and the encoder                       *)
(* _fem_create_model_staad with fem_create_envelope_combination.           *)
(*                                                                         *)
(* A Python str is a sequence of one-character strings, so that len, the   *)
(* slices, split and join of the source are computed and not assumed.      *)
(* A Python None is the empty tuple <<>> and a present number v is <<v>>.  *)
(***************************************************************************)
EXTENDS Integers, Sequences, FiniteSets, TLC

VARIABLES
    pc,                 \* position of the run: which call happens next
    string_list,        \* _check_duplicate_entries: the entries given
    position,           \* _check_duplicate_entries: 0 or -1
    data,               \* _check_duplicate_entries: feature -> compressed ids
    out_list,           \* _check_duplicate_entries: the lines returned
    members,            \* detail_members: the expanded id tokens, per feature
    features_in,        \* the ids that share each feature, as given
    string_to_check,    \* check_length_of_line: the line given
    split_string,       \* check_length_of_line: the lines returned
    refine_data,        \* read_file: the logical lines
    staad_column_limit, \* project.staad_settings.staad_column_limit
    row_input,          \* _check_row_length: the records given
    output_list,        \* _check_row_length: the rows returned
    mesh_nodes,         \* project.collections.mesh_nodes
    std_data,           \* the JOINT COORDINATES section as written
    joint_coordinates,  \* RawStdFile.joint_coordinates
    direction,          \* RawStdFile.direction['direction']
    member_incidences,  \* RawStdFile.member_incidences
    supports,           \* RawStdFile.supports (its 'FIXED BUT' entries when the axes are converted)
    load_items,         \* RawStdFile.primary_loadcases[..]['load_items']
    old_doc,            \* the document as it was before convert_direction
    units,              \* RawStdFile.units['unit']
    primary_loadcases,  \* RawStdFile.primary_loadcases
    element_incidences_shell,  \* RawStdFile.element_incidences_shell
    materials,          \* RawStdFile.materials
    member_properties,  \* RawStdFile.member_properties
    element_properties, \* RawStdFile.element_properties
    load_combinations,  \* RawStdFile.load_combinations
    warnings,           \* the warnings printed by check_required_information
    project_information,\* project.project_information
    shapes,             \* project.collections.shapes: contour type and mesh
    loadcases,          \* project.collections.loadcases
    loadgroups,         \* project.collections.loadgroups
    loadcombinations,   \* project.collections.loadcombinations
    list_content,       \* _fem_create_model_staad: the lines assembled
    std_file,           \* the std-file on disk: None, or its lines
    old_project,        \* the collections and the file as they were before the call
    file_lines,         \* read_file: the physical lines of the std-file
    collections_lines,  \* project.collections.lines: member id, direction and local z-axis
    beta_angles,        \* RawStdFile.beta_angles
    raised              \* the exception raised by the last call, or "none"

rangeVars == <<string_list, position, data, out_list, members, features_in>>
wrapVars  == <<string_to_check, split_string, refine_data>>
packVars  == <<staad_column_limit, row_input, output_list>>
jointVars == <<mesh_nodes, std_data>>
axisVars  == <<joint_coordinates, direction, member_incidences, supports,
               load_items, old_doc>>
decodeVars == <<units, primary_loadcases>>
completeVars == <<element_incidences_shell, materials, member_properties,
                  element_properties, load_combinations, warnings>>
encodeVars == <<project_information, shapes, loadcases, loadgroups, loadcombinations, list_content, std_file, old_project>>
joinVars == <<file_lines>>
betaVars == <<collections_lines, beta_angles>>
vars == <<pc, raised, rangeVars, wrapVars, packVars, jointVars, axisVars,
         decodeVars,
         completeVars,
         encodeVars,
         joinVars,
         betaVars>>

(***************************************************************************)
(* Python strings                                                          *)
(***************************************************************************)
\* what an operator yields where the source raises: a str, and a list of str
ErrStr == <<"#error">>

ErrList == <<ErrStr>>

None == <<>>

Some(v) == <<v>>

\* F(x) with x evaluated once, as Python evaluates an argument or the right
\* side of an assignment once, before the call or the statements that use it
Once(F(_), x) == CHOOSE y \in {F(v) : v \in {x}} : TRUE

Digit(d) ==
    CASE d = 0 -> "0" [] d = 1 -> "1" [] d = 2 -> "2" [] d = 3 -> "3"
      [] d = 4 -> "4" [] d = 5 -> "5" [] d = 6 -> "6" [] d = 7 -> "7"
      [] d = 8 -> "8" [] d = 9 -> "9"

Digits == {"0", "1", "2", "3", "4", "5", "6", "7", "8", "9"}

DigitVal(c) ==
    CASE c = "0" -> 0 [] c = "1" -> 1 [] c = "2" -> 2 [] c = "3" -> 3
      [] c = "4" -> 4 [] c = "5" -> 5 [] c = "6" -> 6 [] c = "7" -> 7
      [] c = "8" -> 8 [] c = "9" -> 9

RECURSIVE NatToStr(_)
NatToStr(n) ==
    IF n < 10 THEN <<Digit(n)>> ELSE NatToStr(n \div 10) \o <<Digit(n % 10)>>

\* str(n) and '%i' % n
IntToStr(n) == IF n < 0 THEN <<"-">> \o NatToStr(0 - n) ELSE NatToStr(n)

\* str.isnumeric(): non-empty and digits only
IsNumeric(s) == Len(s) > 0 /\ \A i \in 1..Len(s) : s[i] \in Digits

RECURSIVE StrToNat(_)
StrToNat(s) ==
    IF Len(s) = 0 THEN 0
    ELSE 10 * StrToNat(SubSeq(s, 1, Len(s) - 1)) + DigitVal(s[Len(s)])

\* int(s) accepts an optional sign in front of the digits
IsInt(s) ==
    IF Len(s) > 0 /\ s[1] = "-" THEN IsNumeric(Tail(s)) ELSE IsNumeric(s)

StrToInt(s) ==
    IF s[1] = "-" THEN 0 - StrToNat(Tail(s)) ELSE StrToNat(s)

RECURSIVE Rep(_, _)
Rep(c, n) == IF n <= 0 THEN <<>> ELSE <<c>> \o Rep(c, n - 1)

\* the positions of the character c in s
Positions(s, c) == {i \in 1..Len(s) : s[i] = c}

Min(S) == CHOOSE x \in S : \A y \in S : x <= y

Max(S) == CHOOSE x \in S : \A y \in S : x >= y

\* s.split(c) for a one-character separator: empty pieces are kept
RECURSIVE Split(_, _)
Split(s, c) ==
    IF Positions(s, c) = {} THEN <<s>>
    ELSE LET i == Min(Positions(s, c))
         IN <<SubSeq(s, 1, i - 1)>> \o Split(SubSeq(s, i + 1, Len(s)), c)

RECURSIVE DropEmpty(_)
DropEmpty(ss) ==
    IF ss = <<>> THEN <<>>
    ELSE IF Head(ss) = <<>> THEN DropEmpty(Tail(ss))
    ELSE <<Head(ss)>> \o DropEmpty(Tail(ss))

\* s.split(): runs of blanks separate, no empty piece
SplitWS(s) == DropEmpty(Split(s, " "))

\* sep.join(ss)
RECURSIVE Join(_, _)
Join(ss, sep) ==
    IF ss = <<>> THEN <<>>
    ELSE IF Len(ss) = 1 THEN ss[1]
    ELSE ss[1] \o sep \o Join(Tail(ss), sep)

\* sub in s
Contains(s, sub) ==
    \E i \in 1..(Len(s) - Len(sub) + 1) : SubSeq(s, i, i + Len(sub) - 1) = sub

SP == <<" ">>

TO == <<"T", "O">>

SPRINGS == <<"S", "P", "R", "I", "N", "G", "S">>

TITLE == <<"T", "I", "T", "L", "E">>

\* sorted(list) of integers, duplicates kept
RECURSIVE RemoveFirst(_, _)
RemoveFirst(seq, x) ==
    IF seq = <<>> THEN <<>>
    ELSE IF Head(seq) = x THEN Tail(seq)
    ELSE <<Head(seq)>> \o RemoveFirst(Tail(seq), x)

RECURSIVE sorted(_)
sorted(seq) ==
    IF seq = <<>> THEN <<>>
    ELSE LET m == Min({seq[i] : i \in 1..Len(seq)})
         IN <<m>> \o sorted(RemoveFirst(seq, m))

(***************************************************************************)
(* RawStdFile.detail_members: the range-list expansion                     *)
(***************************************************************************)
\* [str(k) for k in range(a, b)]
RECURSIVE RangeStrs(_, _)
RangeStrs(a, b) == IF a >= b THEN <<>> ELSE <<IntToStr(a)>> \o RangeStrs(a + 1, b)

\* the mutant: range(int(a), int(b)) instead of range(int(a) + 1, int(b))
RECURSIVE DetailFromOffByOne(_, _, _)
DetailFromOffByOne(sl, j, acc) ==
    IF j > Len(sl) THEN DropEmpty(acc)
    ELSE IF sl[j] # TO THEN DetailFromOffByOne(sl, j + 1, Append(acc, sl[j]))
    ELSE LET prev == IF j = 1 THEN sl[Len(sl)] ELSE sl[j - 1]
         IN IF j = Len(sl) \/ ~IsInt(prev) \/ ~IsInt(sl[j + 1]) THEN ErrList
            ELSE DetailFromOffByOne(sl, j + 1,
                     acc \o RangeStrs(StrToInt(prev), StrToInt(sl[j + 1])))

\* the loop of detail_members from token j on; string_list[j - 1] with j = 0 is
\* Python's string_list[-1], the last token
RECURSIVE DetailFrom(_, _, _)
DetailFrom(sl, j, acc) ==
    IF j > Len(sl) THEN DropEmpty(acc)
    ELSE IF sl[j] # TO THEN DetailFrom(sl, j + 1, Append(acc, sl[j]))
    ELSE LET prev == IF j = 1 THEN sl[Len(sl)] ELSE sl[j - 1]
         IN IF j = Len(sl) \/ ~IsInt(prev) \/ ~IsInt(sl[j + 1]) THEN ErrList
            ELSE DetailFrom(sl, j + 1,
                     acc \o RangeStrs(StrToInt(prev) + 1, StrToInt(sl[j + 1])))

detail_members(sl) == DetailFrom(sl, 1, <<>>)

(***************************************************************************)
(* _check_duplicate_entries: grouping, range compression, clause wrapping  *)
(***************************************************************************)
LIMIT == 78

\* s[0:n] and s[n:] of Python, also for n <= 0 and n > len(s)
PyPrefix(s, n) ==
    IF n >= 0 THEN SubSeq(s, 1, IF n > Len(s) THEN Len(s) ELSE n)
    ELSE SubSeq(s, 1, Len(s) + n)

\* the mutant: the run that ends the list is not closed with TO
RECURSIVE CompressFromNoLastRun(_, _, _)
CompressFromNoLastRun(member, i, acc) ==
    IF i > Len(member) THEN acc
    ELSE LET lmb == Len(member)
             cur == member[i]
             piece ==
                IF acc = <<>> THEN IntToStr(cur)
                ELSE IF i = lmb THEN SP \o IntToStr(cur)
                ELSE IF i < lmb /\ cur = member[i - 1] + 1 /\ cur + 1 # member[i + 1]
                     THEN SP \o TO \o SP \o IntToStr(cur)
                ELSE IF i < lmb /\ cur # member[i - 1] + 1
                     THEN SP \o IntToStr(cur)
                ELSE <<>>
         IN CompressFromNoLastRun(member, i + 1, acc \o piece)

\* the walk over the sorted ids (i is 1-based; acc is list_of_shapes)
RECURSIVE CompressFrom(_, _, _)
CompressFrom(member, i, acc) ==
    IF i > Len(member) THEN acc
    ELSE LET lmb == Len(member)
             cur == member[i]
             piece ==
                IF acc = <<>> THEN IntToStr(cur)
                ELSE IF i = lmb /\ cur = member[i - 1] + 1
                     THEN SP \o TO \o SP \o IntToStr(cur)
                ELSE IF i = lmb THEN SP \o IntToStr(cur)
                ELSE IF i < lmb /\ cur = member[i - 1] + 1 /\ cur + 1 # member[i + 1]
                     THEN SP \o TO \o SP \o IntToStr(cur)
                ELSE IF i < lmb /\ cur # member[i - 1] + 1
                     THEN SP \o IntToStr(cur)
                ELSE <<>>
         IN CompressFrom(member, i + 1, acc \o piece)

\* list_of_shapes for the ids of one feature
CompressIds(memb) == CompressFrom(sorted(memb), 1, <<>>)

\* the while loop that cuts string_to_breakdown at the last blank before n
RECURSIVE BreakDown(_, _, _, _, _, _)
BreakDown(s, n, feature, pos, counter, acc) ==
    IF Len(s) <= n THEN [ok |-> TRUE, rest |-> s, lines |-> acc]
    ELSE LET str_in_range == PyPrefix(s, n)
             blanks == Positions(str_in_range, " ")
         IN IF blanks = {} THEN [ok |-> FALSE, rest |-> s, lines |-> acc]
            ELSE LET location_of_split == Max(blanks)
                     string_to_write ==
                         SubSeq(str_in_range, 1, location_of_split) \o <<"-">>
                     line == IF counter = 0 /\ pos = -1
                             THEN feature \o SP \o string_to_write
                             ELSE string_to_write
                 IN BreakDown(SubSeq(s, location_of_split + 1, Len(s)),
                              LIMIT - 2, feature, pos, 1, Append(acc, line))

\* the lines of one feature group
RenderClause(list_of_shapes, feature, pos) ==
    IF Len(list_of_shapes) + Len(feature) > LIMIT
    THEN LET n == IF pos = -1 THEN LIMIT - Len(feature) - 2 ELSE LIMIT - 2
             b == BreakDown(list_of_shapes, n, feature, pos, 0, <<>>)
         IN IF ~b.ok THEN ErrList
            ELSE IF pos = 0
            THEN IF Len(b.rest) + Len(feature) > LIMIT
                 THEN b.lines \o <<b.rest \o SP \o <<"-">>, feature>>
                 ELSE Append(b.lines, b.rest \o SP \o feature)
            ELSE Append(b.lines, b.rest)
    ELSE IF pos = 0 THEN <<list_of_shapes \o SP \o feature>>
    ELSE <<feature \o SP \o list_of_shapes>>

\* data: the dict feature -> ids in insertion order, as a sequence of
\* [feature, memb]
RECURSIVE GroupEntries(_, _, _)
GroupEntries(sl, pos, acc) ==
    IF sl = <<>> THEN acc
    ELSE LET toks == SplitWS(Head(sl))
             feature == IF pos = 0 THEN Join(Tail(toks), SP)
                        ELSE Join(SubSeq(toks, 1, Len(toks) - 1), SP)
             memb == IF pos = 0 THEN toks[1] ELSE toks[Len(toks)]
             known == {k \in 1..Len(acc) : acc[k].feature = feature}
         IN IF toks = <<>> \/ ~IsInt(memb) THEN <<[feature |-> ErrStr, memb |-> <<>>]>>
            ELSE IF known = {}
            THEN GroupEntries(Tail(sl), pos,
                     Append(acc, [feature |-> feature, memb |-> <<StrToInt(memb)>>]))
            ELSE LET k == Min(known)
                 IN GroupEntries(Tail(sl), pos,
                        [acc EXCEPT ![k].memb = Append(@, StrToInt(memb))])

\* the loop over data.items(); pos is the variable position, which the
\* SPRINGS branch reassigns for the rest of the call
RECURSIVE RenderGroups(_, _, _, _)
RenderGroups(groups, pos, dataAcc, outAcc) ==
    IF groups = <<>> THEN [raised |-> "none", data |-> dataAcc, out |-> outAcc]
    ELSE LET g == Head(groups)
             ids == CompressIds(g.memb)
             flip == Contains(g.feature, SPRINGS)
             pos2 == IF flip THEN -1 ELSE pos
             lines == IF flip THEN RenderClause(g.feature, ids, pos2)
                      ELSE RenderClause(ids, g.feature, pos2)
             data2 == Append(dataAcc, [feature |-> g.feature, ids |-> ids])
         IN IF lines = ErrList
            THEN [raised |-> "ValueError", data |-> data2, out |-> outAcc]
            ELSE RenderGroups(Tail(groups), pos2, data2, outAcc \o lines)

check_duplicate_entries(sl, pos) ==
    LET groups == GroupEntries(sl, pos, <<>>)
    IN IF groups # <<>> /\ groups[1].feature = ErrStr
       THEN [raised |-> "ValueError", data |-> <<>>, out |-> <<>>]
       ELSE RenderGroups(groups, pos, <<>>, <<>>)

(***************************************************************************)
(* The states the other components rest in while one is exercised          *)
(***************************************************************************)
IdleRange ==
    /\ string_list = <<>> /\ position = 0 /\ data = <<>> /\ out_list = <<>>
    /\ members = <<>> /\ features_in = <<>>

IdleWrap == string_to_check = <<>> /\ split_string = <<>> /\ refine_data = <<>>

IdlePack == staad_column_limit = LIMIT /\ row_input = <<>> /\ output_list = <<>>

IdleJoint == mesh_nodes = <<>> /\ std_data = <<>>

IdleAxis ==
    /\ joint_coordinates = <<>> /\ direction = "Z" /\ member_incidences = <<>>
    /\ supports = <<>> /\ load_items = <<>> /\ old_doc = <<>>

IdleBeta == collections_lines = <<>> /\ beta_angles = <<>>

IdleJoin == file_lines = <<>>

IdleEncode == project_information = <<>> /\ shapes = <<>> /\ loadcases = <<>> /\ loadgroups = <<>>
    /\ loadcombinations = <<>> /\ list_content = <<>> /\ std_file = <<>>
    /\ old_project = <<>>

IdleComplete ==
    /\ element_incidences_shell = <<>> /\ materials = <<>>
    /\ member_properties = <<>> /\ element_properties = <<>>
    /\ load_combinations = <<>> /\ warnings = <<>>

IdleDecode == units = <<>> /\ primary_loadcases = <<>>

(***************************************************************************)
(* Range compression and expansion: _check_duplicate_entries, then         *)
(* detail_members on the id list of every feature                          *)
(***************************************************************************)
MaxId == 11

FeatBeta == <<"B", "E", "T", "A", " ", "9", "0", " ", "M", "E", "M", "B">>

FeatGroup == <<"_", "G", "1">>

\* the elements of a set of integers in ascending order
RECURSIVE AscSeq(_)
AscSeq(S) == IF S = {} THEN <<>> ELSE <<Min(S)>> \o AscSeq(S \ {Min(S)})

Reverse(seq) == [i \in 1..Len(seq) |-> seq[Len(seq) + 1 - i]]

\* one entry as the callers build it: the id before the feature (position 0)
\* or after it (position -1)
Entry(id, feature, pos) ==
    IF pos = 0 THEN IntToStr(id) \o SP \o feature ELSE feature \o SP \o IntToStr(id)

EntriesOf(f, pos, rev) ==
    LET ids == IF rev THEN Reverse(AscSeq(f.ids)) ELSE AscSeq(f.ids)
    IN [i \in 1..Len(ids) |-> Entry(ids[i], f.feature, pos)]

RECURSIVE AllEntries(_, _, _)
AllEntries(fs, pos, rev) ==
    IF fs = <<>> THEN <<>>
    ELSE EntriesOf(Head(fs), pos, rev) \o AllEntries(Tail(fs), pos, rev)

InitRange ==
    /\ pc = "start" /\ raised = "none"
    /\ \E S \in (SUBSET (1..MaxId)) \ {{}}, S2 \in {{}, {2, 3}},
          pos \in {0, -1}, rev \in BOOLEAN :
          /\ features_in =
                 <<[feature |-> FeatBeta, ids |-> S]>>
                 \o (IF S2 = {} THEN <<>> ELSE <<[feature |-> FeatGroup, ids |-> S2]>>)
          /\ position = pos
          /\ string_list = AllEntries(features_in, pos, rev)
    /\ data = <<>> /\ out_list = <<>> /\ members = <<>>
    /\ IdleWrap /\ IdlePack /\ IdleJoint /\ IdleAxis
    /\ IdleDecode
    /\ IdleComplete
    /\ IdleEncode
    /\ IdleJoin
    /\ IdleBeta

othersRange == <<wrapVars, packVars, jointVars, axisVars,
      decodeVars,
      completeVars,
      encodeVars,
      joinVars,
      betaVars>>

CheckDuplicateEntries ==
    /\ pc = "start"
    /\ LET r == check_duplicate_entries(string_list, position)
       IN /\ raised' = r.raised
          /\ data' = r.data
          /\ out_list' = r.out
    /\ pc' = "compressed"
    /\ UNCHANGED <<string_list, position, members, features_in, othersRange>>

DetailMembers ==
    /\ pc = "compressed" /\ raised = "none"
    /\ members' = [k \in 1..Len(data) |-> detail_members(Split(data[k].ids, " "))]
    /\ pc' = "expanded"
    /\ UNCHANGED <<string_list, position, data, out_list, features_in, raised,
                   othersRange>>

NextRange == CheckDuplicateEntries \/ DetailMembers

SpecRange == InitRange /\ [][NextRange]_vars

\* the ids of S as the tokens str(id), ascending
IdTokens(S) == [i \in 1..Cardinality(S) |-> IntToStr(AscSeq(S)[i])]

\* C1: expanding the id list compressed for a set S of ids that share one
\* feature gives exactly the ids of S, each once, in ascending order.
C1_RangeRoundTrip ==
    pc = "expanded" =>
        /\ Len(members) = Len(features_in)
        /\ \A k \in 1..Len(features_in) :
               /\ data[k].feature = features_in[k].feature
               /\ members[k] = IdTokens(features_in[k].ids)

C1_Witness ==
    /\ pc = "expanded"
    /\ features_in[1].ids = {1, 2, 3, 4, 5, 7, 9, 10, 11}
    /\ data[1].ids = <<"1", " ", "T", "O", " ", "5", " ", "7", " ", "9", " ", "T", "O", " ", "1", "1">>
    /\ members[1] = IdTokens({1, 2, 3, 4, 5, 7, 9, 10, 11})

\* the maximal runs of consecutive ids of S, as pairs <<first, last>>
RunsOf(S) ==
    {<<a, b>> \in S \X S :
        /\ a <= b
        /\ \A x \in a..b : x \in S
        /\ (a - 1) \notin S
        /\ (b + 1) \notin S}

RunText(r) ==
    IF r[1] = r[2] THEN IntToStr(r[1])
    ELSE IntToStr(r[1]) \o SP \o TO \o SP \o IntToStr(r[2])

RECURSIVE RunsText(_)
RunsText(R) ==
    IF R = {} THEN <<>>
    ELSE LET r == CHOOSE r \in R : \A q \in R : r[1] <= q[1]
         IN IF R = {r} THEN RunText(r)
            ELSE RunText(r) \o SP \o RunsText(R \ {r})

\* C2: the id list of a feature is the ascending sequence of the maximal runs
\* of consecutive ids, a run of two or more written 'first TO last', a run of
\* one written as the bare id, single blanks between the tokens.
C2_CompressionForm ==
    pc \in {"compressed", "expanded"} /\ raised = "none" =>
        /\ Len(data) = Len(features_in)
        /\ \A k \in 1..Len(features_in) :
               data[k].ids = RunsText(RunsOf(features_in[k].ids))

C2_Witness ==
    /\ pc = "compressed" /\ raised = "none"
    /\ features_in[1].ids = {1, 2, 4, 6, 7, 8}
    /\ data[1].ids = <<"1", " ", "T", "O", " ", "2", " ", "4", " ", "6", " ", "T", "O", " ", "8">>

(***************************************************************************)
(* check_length_of_line: the line wrapper                                  *)
(***************************************************************************)
\* the mutant: the window is the whole limit, no room kept for the marker
RECURSIVE BreakLineFullWindow(_, _)
BreakLineFullWindow(s, acc) ==
    IF Len(s) <= LIMIT THEN [ok |-> TRUE, rest |-> s, lines |-> acc]
    ELSE LET str_in_range == PyPrefix(s, LIMIT)
             blanks == Positions(str_in_range, " ")
         IN IF blanks = {} THEN [ok |-> FALSE, rest |-> s, lines |-> acc]
            ELSE LET location_of_split == Max(blanks)
                     string_to_write ==
                         SubSeq(str_in_range, 1, location_of_split) \o <<"-">>
                 IN BreakLineFullWindow(SubSeq(s, location_of_split + 1, Len(s)),
                                        Append(acc, string_to_write))

\* the while loop of check_length_of_line, n = 78 - 2; reverse_string.index(' ')
\* raises ValueError when the window holds no blank
RECURSIVE BreakLine(_, _)
BreakLine(s, acc) ==
    IF Len(s) <= LIMIT - 2 THEN [ok |-> TRUE, rest |-> s, lines |-> acc]
    ELSE LET str_in_range == PyPrefix(s, LIMIT - 2)
             blanks == Positions(str_in_range, " ")
         IN IF blanks = {} THEN [ok |-> FALSE, rest |-> s, lines |-> acc]
            ELSE LET location_of_split == Max(blanks)
                     string_to_write ==
                         SubSeq(str_in_range, 1, location_of_split) \o <<"-">>
                 IN BreakLine(SubSeq(s, location_of_split + 1, Len(s)),
                              Append(acc, string_to_write))

check_length_of_line(s) ==
    IF Len(s) > LIMIT
    THEN LET b == BreakLine(s, <<>>)
         IN IF b.ok THEN Append(b.lines, b.rest) ELSE ErrList
    ELSE <<s>>

(***************************************************************************)
(* RawStdFile.read_file: the line joiner                                   *)
(***************************************************************************)
\* s[-k:] of Python
LastChars(s, k) == SubSeq(s, IF Len(s) > k THEN Len(s) - k + 1 ELSE 1, Len(s))

\* the loop over the physical lines (i is 1-based); lines[i - 1] is the
\* physical line before, and for the first line Python's lines[-1], the last
\* line of the file; refine_data[-1] and lines[i - 1][-2] raise IndexError
\* when there is no such element
RECURSIVE JoinFrom(_, _, _)
JoinFrom(lines, i, refine) ==
    IF i > Len(lines) THEN refine
    ELSE LET cur  == lines[i]
             prev == IF i = 1 THEN lines[Len(lines)] ELSE lines[i - 1]
             n    == Len(refine)
         IN IF Contains(cur, <<"*">>) \/ cur = <<>>
            THEN JoinFrom(lines, i + 1, refine)
            ELSE IF Split(cur, " ")[1] = <<"*">> \/ cur[1] = "*"
            THEN JoinFrom(lines, i + 1, refine)
            ELSE IF LastChars(prev, 1) = <<"-">> /\ ~Contains(prev, TITLE)
            THEN IF n = 0 \/ Len(prev) < 2 THEN ErrList
                 ELSE LET extra == IF prev[Len(prev) - 1] = " " THEN <<>> ELSE SP
                          cut == SubSeq(refine[n], 1, Len(refine[n]) - 1)
                      IN JoinFrom(lines, i + 1,
                                  [refine EXCEPT ![n] = cut \o extra \o cur])
            ELSE IF LastChars(prev, 2) = <<"-", " ">>
            THEN IF n = 0 \/ Len(prev) < 3 THEN ErrList
                 ELSE LET extra == IF prev[Len(prev) - 2] = " " THEN <<>> ELSE SP
                          cut == SubSeq(refine[n], 1, Len(refine[n]) - 2)
                      IN JoinFrom(lines, i + 1,
                                  [refine EXCEPT ![n] = cut \o extra \o cur])
            ELSE JoinFrom(lines, i + 1, Append(refine, cur))

LineJoiner(lines) == JoinFrom(lines, 1, <<>>)

(***************************************************************************)
(* Wrapping one line and reading the physical lines back                   *)
(***************************************************************************)
MaxWords == 3

\* the words a line is made of: short and long tokens, the empty word (two
\* blanks in a row), the marker, the comment character and TITLE
Words ==
    {<<>>, <<"a">>, Rep("a", 37), Rep("a", LIMIT - 3), Rep("a", LIMIT - 2),
     <<"-">>, <<"*">>, TITLE}

InitWrap ==
    /\ pc = "start" /\ raised = "none"
    /\ \E k \in 1..MaxWords : \E ws \in [1..k -> Words] :
          string_to_check = Join(ws, SP)
    /\ split_string = <<>> /\ refine_data = <<>>
    /\ IdleRange /\ IdlePack /\ IdleJoint /\ IdleAxis
    /\ IdleDecode
    /\ IdleComplete
    /\ IdleEncode
    /\ IdleJoin
    /\ IdleBeta

othersWrap == <<rangeVars, packVars, jointVars, axisVars,
      decodeVars,
      completeVars,
      encodeVars,
      joinVars,
      betaVars>>

CheckLengthOfLine ==
    /\ pc = "start"
    /\ LET r == check_length_of_line(string_to_check)
       IN IF r = ErrList
          THEN raised' = "ValueError" /\ UNCHANGED split_string
          ELSE raised' = "none" /\ split_string' = r
    /\ pc' = "wrapped"
    /\ UNCHANGED <<string_to_check, refine_data, othersWrap>>

\* the physical lines written are the file that read_file joins
ReadFile ==
    /\ pc = "wrapped" /\ raised = "none"
    /\ LET r == LineJoiner(split_string)
       IN IF r = ErrList
          THEN raised' = "IndexError" /\ UNCHANGED refine_data
          ELSE raised' = "none" /\ refine_data' = r
    /\ pc' = "joined"
    /\ UNCHANGED <<string_to_check, split_string, othersWrap>>

NextWrap == CheckLengthOfLine \/ ReadFile

SpecWrap == InitWrap /\ [][NextWrap]_vars

\* the longest run of non-blank characters of s
MaxTokenLen(s) ==
    LET toks == Split(s, " ") IN Max({Len(toks[i]) : i \in 1..Len(toks)})

WrappedWithinLimit ==
    /\ raised = "none"
    /\ \A i \in 1..Len(split_string) :
           /\ Len(split_string[i]) <= LIMIT
           /\ i < Len(split_string) => LastChars(split_string[i], 1) = <<"-">>

\* C3 as stated: for any line longer than the limit the wrapper returns
\* lines of at most 78 characters, all but the last ending with '-'.
C3_AnyLineWrapped ==
    pc = "wrapped" /\ Len(string_to_check) > LIMIT => WrappedWithinLimit

\* C3 as amended: for any line longer than the limit in which every run of
\* non-blank characters has at most 75 characters, the wrapper returns lines
\* of at most 78 characters, all but the last ending with '-'.
C3_WrapBounds ==
    pc = "wrapped" /\ Len(string_to_check) > LIMIT
        /\ MaxTokenLen(string_to_check) <= LIMIT - 3
    => WrappedWithinLimit

C3_Witness ==
    /\ pc = "wrapped" /\ raised = "none"
    /\ MaxTokenLen(string_to_check) = LIMIT - 3
    /\ Len(split_string) = 3
    /\ Len(split_string[1]) = LIMIT - 1

\* C4: the physical lines of a line longer than the limit, passed through
\* the line joiner, give one logical line equal to the line wrapped.
C4_WrapJoinRoundTrip ==
    pc = "joined" /\ Len(string_to_check) > LIMIT =>
        raised = "none" /\ refine_data = <<string_to_check>>

(***************************************************************************)
(* _check_row_length: the row packer                                       *)
(***************************************************************************)
\* int(item.split(' ')[0])
LeadingId(item) == StrToInt(Split(item, " ")[1])

\* ref_strings: the record kept for a key is the last one given with it
RefString(sl, key) ==
    sl[Max({i \in 1..Len(sl) : LeadingId(sl[i]) = key})]

\* the mutant: the records are packed in the order given
UnsortedRecords(sl) == sl

\* the records in ascending order of their leading id
SortedRecords(sl) ==
    LET keys == AscSeq({LeadingId(sl[i]) : i \in 1..Len(sl)})
    IN [k \in 1..Len(keys) |-> RefString(sl, keys[k])]

\* the loop that fills the rows (i is 1-based, the row filled is the last)
RECURSIVE FillRows(_, _, _, _)
FillRows(recs, i, limit, out) ==
    IF i > Len(recs) THEN out
    ELSE LET row == Len(out)
             string == recs[i]
         IN IF Len(out[row]) + Len(string) > limit
            THEN FillRows(recs, i + 1, limit, Append(out, string))
            ELSE IF i = 1
            THEN FillRows(recs, i + 1, limit, [out EXCEPT ![row] = @ \o string])
            ELSE FillRows(recs, i + 1, limit,
                          [out EXCEPT ![row] = @ \o SP \o string])

check_row_length(limit, sl) == FillRows(SortedRecords(sl), 1, limit, <<<<>>>>)

MaxRecords == 3

\* the ids of the records: one digit and two digits
PackIds == (1..MaxRecords) \cup {12}

\* the lengths of the records: short, around half the limit, over the limit
RecordLengths == {20, 38, 39, 40, 79}

\* the column limit of the project settings: 78, or the declared input width
ColumnLimits == {LIMIT, LIMIT + 1}

\* a record of n characters that starts with its id
Record(id, n) == IntToStr(id) \o SP \o Rep("x", n - Len(IntToStr(id)) - 2) \o <<";">>

InitPack ==
    /\ pc = "start" /\ raised = "none"
    /\ staad_column_limit \in ColumnLimits
    /\ \E S \in SUBSET PackIds : \E len \in [S -> RecordLengths], rev \in BOOLEAN :
          LET ids == IF rev THEN Reverse(AscSeq(S)) ELSE AscSeq(S)
          IN row_input = [i \in 1..Len(ids) |-> Record(ids[i], len[ids[i]])]
    /\ output_list = <<>>
    /\ IdleRange /\ IdleWrap /\ IdleJoint /\ IdleAxis
    /\ IdleDecode
    /\ IdleComplete
    /\ IdleEncode
    /\ IdleJoin
    /\ IdleBeta

othersPack == <<rangeVars, wrapVars, jointVars, axisVars,
      decodeVars,
      completeVars,
      encodeVars,
      joinVars,
      betaVars>>

CheckRowLength ==
    /\ pc = "start"
    /\ output_list' = check_row_length(staad_column_limit, row_input)
    /\ pc' = "packed"
    /\ UNCHANGED <<staad_column_limit, row_input, raised, othersPack>>

NextPack == CheckRowLength

SpecPack == InitPack /\ [][NextPack]_vars

\* C5: with every record no longer than the column limit, no row returned is
\* longer than the limit.
C5_RowWithinLimit ==
    pc = "packed"
        /\ (\A i \in 1..Len(row_input) : Len(row_input[i]) <= staad_column_limit)
    => \A r \in 1..Len(output_list) : Len(output_list[r]) <= staad_column_limit

\* the records of S in ascending order of id, whatever order they came in
RecordsAscending ==
    LET ids == AscSeq({LeadingId(row_input[i]) : i \in 1..Len(row_input)})
    IN [k \in 1..Len(ids) |->
          row_input[CHOOSE i \in 1..Len(row_input) : LeadingId(row_input[i]) = ids[k]]]

\* C6: the rows, read left to right and top to bottom, hold every record
\* once, in ascending order of leading id, one blank between two records of
\* a row, and every row is made of whole records.
C6_RowContent ==
    pc = "packed" =>
        LET recs == RecordsAscending
            rows == DropEmpty(output_list)
        IN /\ Join(rows, SP) = Join(recs, SP)
           /\ \A r \in 1..Len(rows) :
                  \E a \in 1..Len(recs) : \E b \in a..Len(recs) :
                      rows[r] = Join(SubSeq(recs, a, b), SP)

C6_Witness ==
    /\ pc = "packed"
    /\ Len(row_input) = 3
    /\ LeadingId(row_input[1]) = 12
    /\ Len(output_list) = 2
    /\ Len(Split(output_list[1], ";")) = 3

(***************************************************************************)
(* MeshNode.to_staad and RawStdFile.get_joint_coordinates                  *)
(*                                                                         *)
(* A coordinate of a mesh node is a whole number of 0.0001 m, a decoded    *)
(* coordinate a whole number of 0.001 m.  The coordinates drawn are never  *)
(* half-way between two thousandths, where the digit '%.3f' prints depends *)
(* on the binary expansion of the float.                                   *)
(***************************************************************************)
JOINT_COORDINATES == <<"J", "O", "I", "N", "T", " ", "C", "O", "O", "R", "D", "I", "N", "A", "T", "E", "S">>

JOINT3_RECORD == <<"3", " ", "1", ".", "0", "0", "0", " ", "2", ".", "0", "0", "0", " ", "0", ".", "0", "0", "0", ";">>

FINISH == <<"F", "I", "N", "I", "S", "H">>

Abs(v) == IF v < 0 THEN 0 - v ELSE v

\* the number of thousandths nearest to v ten-thousandths, sign apart
Thousandths(v) == (Abs(v) + 5) \div 10

Pad3(n) == <<Digit(n \div 100), Digit((n \div 10) % 10), Digit(n % 10)>>

\* '%.3f' % x: the sign of x is printed also when the digits are all zero
Format3f(v) ==
    (IF v < 0 THEN <<"-">> ELSE <<>>)
    \o NatToStr(Thousandths(v) \div 1000) \o <<".">> \o Pad3(Thousandths(v) % 1000)

\* MeshNode.to_staad: '%i %.3f %.3f %.3f;'
to_staad(node) ==
    IntToStr(node.id) \o SP \o Format3f(node.coordinates[1]) \o SP
    \o Format3f(node.coordinates[2]) \o SP \o Format3f(node.coordinates[3]) \o <<";">>

\* float(s) accepts [-]digits[.digits]; here with at most three decimals
IsFloat(s) ==
    LET body == IF Len(s) > 0 /\ s[1] = "-" THEN Tail(s) ELSE s
        parts == Split(body, ".")
    IN /\ Len(parts) \in {1, 2}
       /\ \A k \in 1..Len(parts) : parts[k] = <<>> \/ IsNumeric(parts[k])
       /\ \E k \in 1..Len(parts) : parts[k] # <<>>
       /\ Len(parts) = 2 => Len(parts[2]) <= 3

\* float(s) in thousandths; -0.0 equals 0.0
StrToFloat(s) ==
    LET neg == s[1] = "-"
        body == IF neg THEN Tail(s) ELSE s
        parts == Split(body, ".")
        frac == IF Len(parts) = 2 THEN parts[2] \o Rep("0", 3 - Len(parts[2]))
                ELSE Rep("0", 3)
        mag == 1000 * StrToNat(parts[1]) + StrToNat(frac)
    IN IF neg THEN 0 - mag ELSE mag

\* self.joint_coordinates[id] = [x, y, z]: the dict as a sequence of
\* [id, xyz] in insertion order
DictSet(d, id, xyz) ==
    LET known == {k \in 1..Len(d) : d[k].id = id}
    IN IF known = {} THEN Append(d, [id |-> id, xyz |-> xyz])
       ELSE [d EXCEPT ![Min(known)].xyz = xyz]

\* the mutant: the id is always the first token of the record text
RECURSIVE JointRecordsFirstToken(_, _, _)
JointRecordsFirstToken(texts, k, d) ==
    IF k > Len(texts) THEN [ok |-> TRUE, d |-> d]
    ELSE IF texts[k] = <<>> THEN JointRecordsFirstToken(texts, k + 1, d)
    ELSE LET toks == Split(texts[k], " ")
         IN IF Len(toks) < 4 \/ \E t \in 2..4 : ~IsFloat(toks[t])
            THEN [ok |-> FALSE, d |-> d]
            ELSE JointRecordsFirstToken(texts, k + 1,
                     DictSet(d, toks[1],
                             <<StrToFloat(toks[2]), StrToFloat(toks[3]),
                               StrToFloat(toks[4])>>))

\* the records of one line: for text in std_data[i].split(";")
RECURSIVE JointRecords(_, _, _)
JointRecords(texts, k, d) ==
    IF k > Len(texts) THEN [ok |-> TRUE, d |-> d]
    ELSE IF texts[k] = <<>> THEN JointRecords(texts, k + 1, d)
    ELSE LET toks == Split(texts[k], " ")
             o == IF Len(toks) = 5 THEN 1 ELSE 0
         IN IF Len(toks) < 4 \/ \E t \in 2..4 : ~IsFloat(toks[o + t])
            THEN [ok |-> FALSE, d |-> d]
            ELSE JointRecords(texts, k + 1,
                     DictSet(d, toks[o + 1],
                             <<StrToFloat(toks[o + 2]), StrToFloat(toks[o + 3]),
                               StrToFloat(toks[o + 4])>>))

\* the inner while loop: the lines that begin with a numeric token
RECURSIVE JointLines(_, _, _)
JointLines(sd, i, d) ==
    IF i > Len(sd) THEN [raised |-> "IndexError", i |-> i, d |-> d]
    ELSE IF ~IsNumeric(Split(sd[i], " ")[1]) THEN [raised |-> "none", i |-> i, d |-> d]
    ELSE LET r == JointRecords(Split(sd[i], ";"), 1, d)
         IN IF ~r.ok THEN [raised |-> "ValueError", i |-> i, d |-> r.d]
            ELSE JointLines(sd, i + 1, r.d)

\* the outer while loop (i is 1-based)
RECURSIVE JointScan(_, _, _)
JointScan(sd, i, d) ==
    IF i > Len(sd) THEN [raised |-> "none", d |-> d]
    ELSE IF sd[i] = JOINT_COORDINATES
    THEN IF i + 1 > Len(sd) THEN [raised |-> "IndexError", d |-> d]
         ELSE LET j == IF sd[i + 1] = <<>> THEN i + 2 ELSE i + 1
                  r == JointLines(sd, j, d)
              IN IF r.raised # "none" THEN [raised |-> r.raised, d |-> r.d]
                 ELSE JointScan(sd, r.i + 1, r.d)
    ELSE JointScan(sd, i + 1, d)

get_joint_coordinates(sd, d) == JointScan(sd, 1, d)

MaxNodes == 4

NodeIds == (1..MaxNodes) \cup {12}

\* coordinates in 0.0001 m: zero, whole metres, values that round up and
\* down, negative values and one that rounds to -0.000
NodeCoordinates ==
    {<<0, 0, 0>>, <<10000, 20000, 0>>, <<-100004, 12346, -4>>}

InitJoint ==
    /\ pc = "start" /\ raised = "none"
    /\ staad_column_limit \in ColumnLimits
    /\ \E S \in SUBSET NodeIds : \E xyz \in [S -> NodeCoordinates], rev \in BOOLEAN :
          LET ids == IF rev THEN Reverse(AscSeq(S)) ELSE AscSeq(S)
          IN mesh_nodes = [i \in 1..Len(ids) |->
                              [id |-> ids[i], coordinates |-> xyz[ids[i]]]]
    /\ std_data = <<>> /\ joint_coordinates = <<>>
    /\ row_input = <<>> /\ output_list = <<>>
    /\ IdleRange /\ IdleWrap
    /\ direction = "Z" /\ member_incidences = <<>> /\ supports = <<>>
    /\ load_items = <<>> /\ old_doc = <<>>
    /\ IdleDecode
    /\ IdleComplete
    /\ IdleEncode
    /\ IdleJoin
    /\ IdleBeta

othersJoint ==
    <<rangeVars, wrapVars, direction, member_incidences, supports, load_items,
      old_doc,
      decodeVars,
      completeVars,
      encodeVars,
      joinVars,
      betaVars>>

\* _fem_create_model_staad, the JOINT COORDINATES block: the header, the
\* packed records, and the line that follows the block
WriteJointCoordinates ==
    /\ pc = "start"
    /\ row_input' = [i \in 1..Len(mesh_nodes) |-> to_staad(mesh_nodes[i])]
    /\ output_list' = check_row_length(staad_column_limit, row_input')
    /\ std_data' = <<JOINT_COORDINATES>> \o output_list' \o <<FINISH>>
    /\ pc' = "written"
    /\ UNCHANGED <<staad_column_limit, mesh_nodes, joint_coordinates, raised,
                   othersJoint>>

GetJointCoordinates ==
    /\ pc = "written"
    /\ LET r == get_joint_coordinates(std_data, joint_coordinates)
       IN raised' = r.raised /\ joint_coordinates' = r.d
    /\ pc' = "decoded"
    /\ UNCHANGED <<staad_column_limit, mesh_nodes, row_input, output_list,
                   std_data, othersJoint>>

NextJoint == WriteJointCoordinates \/ GetJointCoordinates

SpecJoint == InitJoint /\ [][NextJoint]_vars

\* a coordinate rounded to three decimals, in thousandths
Round3(v) == IF v < 0 THEN 0 - Thousandths(v) ELSE Thousandths(v)

\* C7: the joints decoded from the packed JOINT COORDINATES records are the
\* joints written, each once, with its coordinates rounded to 3 decimals.
C7_JointRoundTrip ==
    pc = "decoded" =>
        /\ raised = "none"
        /\ Len(joint_coordinates) = Len(mesh_nodes)
        /\ \A n \in 1..Len(mesh_nodes) :
               \E k \in 1..Len(joint_coordinates) :
                   /\ joint_coordinates[k].id = IntToStr(mesh_nodes[n].id)
                   /\ joint_coordinates[k].xyz =
                          <<Round3(mesh_nodes[n].coordinates[1]),
                            Round3(mesh_nodes[n].coordinates[2]),
                            Round3(mesh_nodes[n].coordinates[3])>>

C7_Witness ==
    /\ pc = "decoded" /\ raised = "none"
    /\ Len(mesh_nodes) = 5
    /\ Len(output_list) = 2
    /\ \E k \in 1..Len(joint_coordinates) :
           /\ joint_coordinates[k].id = <<"1", "2">>
           /\ joint_coordinates[k].xyz = <<-10000, 1235, 0>>
    /\ \E k \in 1..Len(joint_coordinates) :
           /\ joint_coordinates[k].id = <<"3">>
           /\ joint_coordinates[k].xyz = <<1000, 2000, 0>>
    /\ \E i \in 1..Len(row_input) : row_input[i] = JOINT3_RECORD

(***************************************************************************)
(* convert_direction: the axis normaliser                                  *)
(*                                                                         *)
(* The document is joint_coordinates, member_incidences, the FIXED BUT     *)
(* supports and load_items: the load items of the primary load cases in    *)
(* the order the nested loops of convert_direction visit them, each item   *)
(* a record with the keys its dict has in the source.                      *)
(***************************************************************************)
\* the mutant: [x, z, y], the sign of the new y forgotten
ConvertXYZNoSign(xyz) == <<xyz[1], xyz[3], xyz[2]>>

\* RawStd.joint_coordinates[key] = [x, -z, y]
ConvertXYZ(xyz) == <<xyz[1], 0 - xyz[3], xyz[2]>>

\* RawStd.joint_coordinates[id]
Lookup(d, id) == d[CHOOSE k \in 1..Len(d) : d[k].id = id].xyz

\* the FIXED BUT entry with the Y and Z entries exchanged
ConvertSupport(v) ==
    [KFX |-> v.KFX, KFY |-> v.KFZ, KFZ |-> v.KFY,
     KMX |-> v.KMX, KMY |-> v.KMZ, KMZ |-> v.KMY,
     assigned_node |-> v.assigned_node]

\* one load item: what is stored for it afterwards, and whether the
\* statement for it raised.  For a JOINT LOAD the new values are bound to the
\* loop variable value2 only, so the stored item stays as it was; for a
\* MEMBER LOAD in GZ the line after the new direction is a comparison
\* (value2['force'] == -1 * value2['force']), which stores nothing and raises
\* KeyError for an item without the key 'force'.
ConvertItem(it) ==
    IF it.kind = "SELFWEIGHT" THEN [item |-> [it EXCEPT !.direction = "Z"], ok |-> TRUE]
    ELSE IF it.kind = "JOINT LOAD" THEN [item |-> it, ok |-> TRUE]
    ELSE IF it.kind = "MEMBER LOAD"
    THEN IF it.direction = "GY"
         THEN [item |-> [it EXCEPT !.direction = "GZ"], ok |-> TRUE]
         ELSE IF it.direction = "GZ"
         THEN [item |-> [it EXCEPT !.direction = "GY"],
               ok |-> "force" \in DOMAIN it]
         ELSE [item |-> it, ok |-> TRUE]
    ELSE IF it.kind = "ELEMENT LOAD"
    THEN IF it.direction = "GY"
         THEN [item |-> [it EXCEPT !.direction = "GZ"], ok |-> TRUE]
         ELSE IF it.direction = "GZ"
         THEN [item |-> [it EXCEPT !.direction = "GY", !.force = 0 - @],
               ok |-> TRUE]
         ELSE [item |-> it, ok |-> TRUE]
    ELSE [item |-> it, ok |-> TRUE]

\* the loops over the load items; an exception leaves the later items as
\* they were
RECURSIVE ConvertItems(_, _)
ConvertItems(items, k) ==
    IF k > Len(items) THEN [items |-> items, raised |-> "none"]
    ELSE LET r == ConvertItem(items[k])
             done == [items EXCEPT ![k] = r.item]
         IN IF r.ok THEN ConvertItems(done, k + 1)
            ELSE [items |-> done, raised |-> "KeyError"]

\* the mutant: no else branch, an unsupported axis is returned silently
convert_directionNoRaise(doc) ==
    IF doc.direction = "Z" THEN [doc |-> doc, raised |-> "none"]
    ELSE IF doc.direction = "Y"
    THEN LET jc == [k \in 1..Len(doc.joint_coordinates) |->
                       [doc.joint_coordinates[k] EXCEPT !.xyz = ConvertXYZ(@)]]
             mi == [k \in 1..Len(doc.member_incidences) |->
                       [doc.member_incidences[k] EXCEPT
                           !.start_node = Lookup(jc, doc.member_incidences[k].start_node_ID),
                           !.end_node = Lookup(jc, doc.member_incidences[k].end_node_ID)]]
             su == [k \in 1..Len(doc.supports) |-> ConvertSupport(doc.supports[k])]
             lr == ConvertItems(doc.load_items, 1)
         IN [doc |-> [direction |-> "Z", joint_coordinates |-> jc,
                      member_incidences |-> mi, supports |-> su,
                      load_items |-> lr.items],
             raised |-> lr.raised]
    ELSE [doc |-> doc, raised |-> "none"]

convert_direction(doc) ==
    IF doc.direction = "Z" THEN [doc |-> doc, raised |-> "none"]
    ELSE IF doc.direction = "Y"
    THEN LET jc == [k \in 1..Len(doc.joint_coordinates) |->
                       [doc.joint_coordinates[k] EXCEPT !.xyz = ConvertXYZ(@)]]
             mi == [k \in 1..Len(doc.member_incidences) |->
                       [doc.member_incidences[k] EXCEPT
                           !.start_node = Lookup(jc, doc.member_incidences[k].start_node_ID),
                           !.end_node = Lookup(jc, doc.member_incidences[k].end_node_ID)]]
             su == [k \in 1..Len(doc.supports) |-> ConvertSupport(doc.supports[k])]
             lr == ConvertItems(doc.load_items, 1)
         IN [doc |-> [direction |-> "Z", joint_coordinates |-> jc,
                      member_incidences |-> mi, supports |-> su,
                      load_items |-> lr.items],
             raised |-> lr.raised]
    ELSE [doc |-> doc, raised |-> "NotImplementedError"]

MaxLoadItems == 2

ID1 == <<"1">>

ID2 == <<"2">>

\* the joints of the document: two joints, joined by member 1
JointChoices ==
    {<<[id |-> ID1, xyz |-> <<0, 0, 0>>], [id |-> ID2, xyz |-> <<1, 2, 3>>]>>,
     <<[id |-> ID1, xyz |-> <<-4, 0, 5>>], [id |-> ID2, xyz |-> <<-4, 6, 5>>]>>,
     <<[id |-> ID2, xyz |-> <<1, 2, 3>>], [id |-> ID1, xyz |-> <<7, -2, -3>>]>>}

\* the FIXED BUT supports: none, a spring in Y, releases and springs mixed
SupportChoices ==
    {<<>>,
     <<[KFX |-> None, KFY |-> Some(100), KFZ |-> None,
        KMX |-> None, KMY |-> None, KMZ |-> Some(0), assigned_node |-> <<ID1>>]>>,
     <<[KFX |-> Some(0), KFY |-> Some(20), KFZ |-> Some(30),
        KMX |-> Some(5), KMY |-> Some(0), KMZ |-> Some(40),
        assigned_node |-> <<ID1, ID2>>]>>}

\* the load items as get_primary_loadcases stores them (forces in N)
LoadItemChoices ==
    {[kind |-> "SELFWEIGHT", direction |-> "Y", factor |-> -1,
      assigned_members |-> <<"ALL">>],
     [kind |-> "JOINT LOAD", FX |-> Some(5000), FY |-> Some(-3000), FZ |-> None,
      MX |-> None, MY |-> Some(2000), MZ |-> Some(7000), assigned_members |-> <<ID1>>],
     [kind |-> "JOINT LOAD", FX |-> None, FY |-> None, FZ |-> Some(4000),
      MX |-> Some(1000), MY |-> None, MZ |-> None, assigned_members |-> <<ID2>>],
     [kind |-> "SUPPORT DISPLACEMENT LOAD", FX |-> None, FY |-> Some(10),
      FZ |-> Some(-20), MX |-> None, MY |-> None, MZ |-> None,
      assigned_members |-> <<ID1>>],
     [kind |-> "MEMBER LOAD", load_type |-> "uniform_force", direction |-> "GZ",
      force |-> 10, assigned_members |-> <<ID1>>],
     [kind |-> "MEMBER LOAD", load_type |-> "uniform_force", direction |-> "GY",
      force |-> -5000, assigned_members |-> <<ID1>>],
     [kind |-> "MEMBER LOAD", load_type |-> "concentrated_force", direction |-> "GX",
      force |-> 2000, assigned_members |-> <<ID1>>],
     [kind |-> "MEMBER LOAD", load_type |-> "uniform_moment", direction |-> "GZ",
      moment |-> 3000, assigned_members |-> <<ID1>>],
     [kind |-> "MEMBER LOAD", load_type |-> "trapezoidal", direction |-> "GY",
      W1 |-> 1000, W2 |-> 2000, assigned_members |-> <<ID1>>],
     [kind |-> "ELEMENT LOAD", load_type |-> "pressure_on_full_plate",
      direction |-> "GZ", force |-> 10, assigned_members |-> <<ID1>>],
     [kind |-> "ELEMENT LOAD", load_type |-> "pressure_on_full_plate",
      direction |-> "GY", force |-> -4000, assigned_members |-> <<ID2>>]}

\* the declared up-axis: SET Y UP, SET Z UP, and one that is not supported
Directions == {"Y", "Z", "X"}

Document ==
    [direction |-> direction, joint_coordinates |-> joint_coordinates,
     member_incidences |-> member_incidences, supports |-> supports,
     load_items |-> load_items]

InitAxis ==
    /\ pc = "start" /\ raised = "none"
    /\ direction \in Directions
    /\ joint_coordinates \in JointChoices
    /\ member_incidences =
           <<[id |-> ID1, start_node_ID |-> ID1, end_node_ID |-> ID2,
              start_node |-> Lookup(joint_coordinates, ID1),
              end_node |-> Lookup(joint_coordinates, ID2)]>>
    /\ supports \in SupportChoices
    /\ \E n \in 0..MaxLoadItems : load_items \in [1..n -> LoadItemChoices]
    /\ old_doc = <<>>
    /\ IdleRange /\ IdleWrap /\ IdlePack /\ IdleJoint
    /\ IdleDecode
    /\ IdleComplete
    /\ IdleEncode
    /\ IdleJoin
    /\ IdleBeta

othersAxis == <<rangeVars, wrapVars, packVars, jointVars,
      decodeVars,
      completeVars,
      encodeVars,
      joinVars,
      betaVars>>

ConvertDirection ==
    /\ pc = "start"
    /\ LET r == convert_direction(Document)
       IN /\ raised' = r.raised
          /\ direction' = r.doc.direction
          /\ joint_coordinates' = r.doc.joint_coordinates
          /\ member_incidences' = r.doc.member_incidences
          /\ supports' = r.doc.supports
          /\ load_items' = r.doc.load_items
    /\ old_doc' = Document
    /\ pc' = "converted"
    /\ UNCHANGED othersAxis

NextAxis == ConvertDirection

SpecAxis == InitAxis /\ [][NextAxis]_vars

\* C8: on a document declaring Y every joint (x, y, z) becomes (x, -z, y)
\* and the declared axis becomes Z; on one declaring Z no coordinate changes.
C8_AxisCoordinates ==
    pc = "converted" =>
        /\ old_doc.direction = "Y" =>
               /\ direction = "Z"
               /\ Len(joint_coordinates) = Len(old_doc.joint_coordinates)
               /\ \A k \in 1..Len(joint_coordinates) :
                      LET o == old_doc.joint_coordinates[k]
                      IN /\ joint_coordinates[k].id = o.id
                         /\ joint_coordinates[k].xyz =
                                <<o.xyz[1], 0 - o.xyz[3], o.xyz[2]>>
        /\ old_doc.direction = "Z" =>
               direction = "Z" /\ joint_coordinates = old_doc.joint_coordinates

C8_Witness ==
    /\ pc = "converted"
    /\ old_doc.direction = "Y"
    /\ \E k \in 1..Len(joint_coordinates) :
           /\ old_doc.joint_coordinates[k].xyz = <<1, 2, 3>>
           /\ joint_coordinates[k].xyz = <<1, -3, 2>>

\* the magnitudes of a member or element load
Magnitudes(it) ==
    [key \in DOMAIN it \cap {"force", "moment", "W1", "W2"} |-> it[key]]

\* C9: under the Y-to-Z transform every member and element load in GY gets
\* GZ with its magnitude unchanged, every one in GZ gets GY with its
\* magnitude negated.
C9_AxisMemberElementLoads ==
    pc = "converted" /\ old_doc.direction = "Y" =>
        \A k \in 1..Len(load_items) :
            LET o == old_doc.load_items[k]
                n == load_items[k]
            IN o.kind \in {"MEMBER LOAD", "ELEMENT LOAD"} =>
                   /\ o.direction = "GY" =>
                          n.direction = "GZ" /\ Magnitudes(n) = Magnitudes(o)
                   /\ o.direction = "GZ" =>
                          /\ n.direction = "GY"
                          /\ Magnitudes(n) =
                                 [key \in DOMAIN Magnitudes(o) |-> 0 - Magnitudes(o)[key]]

\* -1 * v, None staying None
NegOrNone(v) == IF v = None THEN None ELSE Some(0 - v[1])

\* C10: after convert_direction on a Y-up document every JOINT LOAD and
\* SUPPORT DISPLACEMENT LOAD item stored has FY = -(old FZ), FZ = old FY,
\* MY = -(old MZ), MZ = old MY, FX and MX as before, absent staying absent.
C10_AxisJointLoads ==
    pc = "converted" /\ old_doc.direction = "Y" /\ raised = "none" =>
        \A k \in 1..Len(load_items) :
            LET o == old_doc.load_items[k]
                n == load_items[k]
            IN o.kind \in {"JOINT LOAD", "SUPPORT DISPLACEMENT LOAD"} =>
                   /\ n.FX = o.FX /\ n.MX = o.MX
                   /\ n.FY = NegOrNone(o.FZ) /\ n.FZ = o.FY
                   /\ n.MY = NegOrNone(o.MZ) /\ n.MZ = o.MY

\* C11: after convert_direction on a Y-up document every FIXED BUT support
\* has new KFY = -(old KFZ), new KFZ = old KFY, new KMY = -(old KMZ),
\* new KMZ = old KMY, and KFX, KMX and the assigned joints as before.
C11_AxisSupports ==
    pc = "converted" /\ old_doc.direction = "Y" =>
        /\ Len(supports) = Len(old_doc.supports)
        /\ \A k \in 1..Len(supports) :
               LET o == old_doc.supports[k]
                   n == supports[k]
               IN /\ n.KFX = o.KFX /\ n.KMX = o.KMX
                  /\ n.assigned_node = o.assigned_node
                  /\ n.KFY = NegOrNone(o.KFZ) /\ n.KFZ = o.KFY
                  /\ n.KMY = NegOrNone(o.KMZ) /\ n.KMZ = o.KMY

\* C12: convert_direction on a document whose declared axis is neither Y nor
\* Z raises, and the document afterwards is the document before the call.
C12_UnsupportedAxis ==
    pc = "converted" /\ old_doc.direction \notin {"Y", "Z"} =>
        /\ raised = "NotImplementedError"
        /\ Document = old_doc

C12_Witness ==
    /\ pc = "converted"
    /\ old_doc.direction = "X"
    /\ raised = "NotImplementedError"
    /\ Len(old_doc.load_items) = MaxLoadItems
    /\ Len(old_doc.supports) > 0
    /\ direction = "X"

(***************************************************************************)
(* The decoder: get_unit and get_primary_loadcases of RawStdFile.          *)
(* std_data holds the logical lines of the file; a decoded float is kept   *)
(* in thousandths.                                                         *)
(***************************************************************************)
UNIT == <<"U", "N", "I", "T">>

KN == <<"K", "N">>

NEWTON == <<"N">>

\* the units before any UNIT line is read
DefaultUnits ==
    [unit_dimension |-> <<"M", "E", "T", "E", "R">>, unit_force |-> <<"k", "N">>,
     convert_factor_force |-> 1000]

\* the mutant: no else branch, another force unit keeps the factor it found
RECURSIVE UnitScanNoRaise(_, _, _)
UnitScanNoRaise(sd, i, u) ==
    IF i > Len(sd) THEN [raised |-> "none", units |-> u]
    ELSE IF Contains(sd[i], UNIT)
    THEN LET t == Split(sd[i], " ")
         IN IF Len(t) < 3 THEN [raised |-> "IndexError", units |-> u]
            ELSE UnitScanNoRaise(sd, i + 1,
                     [unit_dimension |-> t[2], unit_force |-> t[3],
                      convert_factor_force |->
                          IF t[3] = NEWTON THEN 1 ELSE u.convert_factor_force])
    ELSE UnitScanNoRaise(sd, i + 1, u)

\* get_unit, the loop over std_data: every line with UNIT in it is read as
\* a units line, the last one stays
RECURSIVE UnitScan(_, _, _)
UnitScan(sd, i, u) ==
    IF i > Len(sd) THEN [raised |-> "none", units |-> u]
    ELSE IF Contains(sd[i], UNIT)
    THEN LET t == Split(sd[i], " ")
         IN IF Len(t) < 3 THEN [raised |-> "IndexError", units |-> u]
            ELSE IF t[3] = KN
            THEN UnitScan(sd, i + 1,
                     [unit_dimension |-> t[2], unit_force |-> t[3],
                      convert_factor_force |-> 1000])
            ELSE IF t[3] = NEWTON
            THEN UnitScan(sd, i + 1,
                     [unit_dimension |-> t[2], unit_force |-> t[3],
                      convert_factor_force |-> 1])
            ELSE [raised |-> "NotImplementedError", units |-> u]
    ELSE UnitScan(sd, i + 1, u)

get_unit(sd) == UnitScan(sd, 1, DefaultUnits)

\* s.find(sub) + 1: the first place of sub in s, 0 if there is none
Find(s, sub) ==
    LET P == {i \in 1..(Len(s) - Len(sub) + 1) : SubSeq(s, i, i + Len(sub) - 1) = sub}
    IN IF P = {} THEN 0 ELSE Min(P)

\* s.split(sep) for a separator of any length
RECURSIVE SplitStr(_, _)
SplitStr(s, sep) ==
    LET i == Find(s, sep)
    IN IF i = 0 THEN <<s>>
       ELSE <<SubSeq(s, 1, i - 1)>> \o SplitStr(SubSeq(s, i + Len(sep), Len(s)), sep)

\* s * n of a str and an int: s repeated n times
StrMul(s, n) == [k \in 1..(n * Len(s)) |-> s[((k - 1) % Len(s)) + 1]]

\* float('inf'); a finite float v is Some(v), of length 1
Inf == <<"inf", "inf">>

\* the largest number of digits of a whole number that float() keeps finite
FLOAT_DIGITS == 309

\* the digits of s after its leading zeros
RECURSIVE StripZeros(_)
StripZeros(s) ==
    IF Len(s) > 0 /\ Head(s) = "0" THEN StripZeros(Tail(s)) ELSE s

\* float(s) for an s that float() accepts: a whole number of more than 309
\* digits is inf
PyFloat(s) ==
    IF IsNumeric(s) /\ Len(StripZeros(s)) > FLOAT_DIGITS THEN Inf
    ELSE Some(StrToFloat(s))

\* f * k for a float f and the int k
Times(f, k) == IF f = Inf THEN Inf ELSE Some(f[1] * k)

\* f * math.pi / 180: kept as the pair of f and the constant
Radians(f) == IF f = Inf THEN Inf ELSE <<f[1], "pi/180">>

\* re.findall(r'\w+'): the characters of a word are those that are neither
\* blank nor punctuation
IsWordChar(c) == c \notin {" ", "-", ".", ";", ",", "*", ":"}

\* the longest run of word characters at the start of s
RECURSIVE WordPrefix(_)
WordPrefix(s) ==
    IF Len(s) > 0 /\ IsWordChar(Head(s)) THEN <<Head(s)>> \o WordPrefix(Tail(s))
    ELSE <<>>

\* re.findall(key + r'\s\w+', s)[0].split(' ')[1]: the word after the first
\* 'key ' that a word follows; <<>> where findall finds nothing
WordAfter(s, key) ==
    LET P == {i \in 1..(Len(s) - Len(key) - 1) :
                 /\ SubSeq(s, i, i + Len(key) - 1) = key
                 /\ s[i + Len(key)] = " "
                 /\ IsWordChar(s[i + Len(key) + 1])}
    IN IF P = {} THEN <<>>
       ELSE WordPrefix(SubSeq(s, Min(P) + Len(key) + 1, Len(s)))

\* std_data[i].split(' ')[0]
FirstToken(s) == Split(s, " ")[1]

\* float(line.split(key + ' ')[1].split(' ')[0]) * factor
ScaledAfter(line, key, factor) ==
    LET parts == SplitStr(line, key \o SP)
    IN IF Len(parts) < 2 THEN [raised |-> "IndexError", val |-> None]
       ELSE LET tok == Split(parts[2], " ")[1]
            IN IF ~IsFloat(tok) THEN [raised |-> "ValueError", val |-> None]
               ELSE [raised |-> "none", val |-> Times(PyFloat(tok), factor)]

\* lst_members before its first assignment
Unbound == <<<<"#unbound">>>>

\* the loop position i, the load items of the load case in the order of the
\* dict (kind by kind, each kind in the order of its count), the local
\* lst_members, and the exception raised
Fail(st, e) == [st EXCEPT !.raised = e]

\* load_items[kind][count] = item with count = len(load_items[kind]) + 1:
\* the item follows the items of its kind
InsertItem(items, item) ==
    LET same == {k \in 1..Len(items) : items[k].kind = item.kind}
    IN IF same = {} THEN Append(items, item)
       ELSE SubSeq(items, 1, Max(same)) \o <<item>>
                \o SubSeq(items, Max(same) + 1, Len(items))

ForceKeys == <<<<"F", "X">>, <<"F", "Y">>, <<"F", "Z">>>>

MomentKeys == <<<<"M", "X">>, <<"M", "Y">>, <<"M", "Z">>>>

\* FX = float(line.split('FX ')[1].split(' ')[0]) * factor when FX is in
\* the line, None otherwise
Component(line, key, factor) ==
    IF Contains(line, key) THEN ScaledAfter(line, key, factor)
    ELSE [raised |-> "none", val |-> None]

\* the first exception of a sequence of results, "none" if there is none
FirstRaised(rs) ==
    LET bad == {k \in 1..Len(rs) : rs[k].raised # "none"}
    IN IF bad = {} THEN "none" ELSE rs[Min(bad)].raised

\* lst_members of a JOINT LOAD line: the ids in front of the first component
\* the if-chain finds, or what lst_members was
JointLoadMembers(line, lst) ==
    LET keys == ForceKeys \o MomentKeys
        has == {k \in 1..6 : Contains(line, keys[k])}
    IN IF has = {} THEN lst
       ELSE detail_members(Split(SplitStr(line, SP \o keys[Min(has)])[1], " "))

\* one line of a JOINT LOAD or SUPPORT DISPLACEMENT LOAD block; the moments
\* of a support displacement are also multiplied by math.pi / 180
JointLoadLine(line, factor, kind, lst) ==
    LET f == [k \in 1..3 |-> Component(line, ForceKeys[k], factor)]
        m == [k \in 1..3 |-> Component(line, MomentKeys[k], factor)]
        rad(v) == IF kind = "SUPPORT DISPLACEMENT LOAD" /\ v # None
                  THEN Radians(v) ELSE v
        mem == JointLoadMembers(line, lst)
    IN IF FirstRaised(f \o m) # "none"
       THEN [raised |-> FirstRaised(f \o m), item |-> <<>>]
       ELSE IF mem = Unbound THEN [raised |-> "UnboundLocalError", item |-> <<>>]
       ELSE IF mem = ErrList THEN [raised |-> "ValueError", item |-> <<>>]
       ELSE [raised |-> "none",
             item |-> [kind |-> kind,
                       FX |-> f[1].val, FY |-> f[2].val, FZ |-> f[3].val,
                       MX |-> rad(m[1].val), MY |-> rad(m[2].val),
                       MZ |-> rad(m[3].val),
                       assigned_members |-> mem]]

\* while std_data[i].split(' ')[0].isnumeric(): the lines of the block
RECURSIVE JointLoadLines(_, _, _, _)
JointLoadLines(sd, st, factor, kind) ==
    IF st.raised # "none" THEN st
    ELSE IF st.i > Len(sd) THEN Fail(st, "IndexError")
    ELSE IF ~IsNumeric(FirstToken(sd[st.i])) THEN st
    ELSE Once(LAMBDA r :
                 IF r.raised # "none" THEN Fail(st, r.raised)
                 ELSE Once(LAMBDA s : JointLoadLines(sd, s, factor, kind),
                          [st EXCEPT !.i = @ + 1, !.items = InsertItem(@, r.item),
                                     !.lst = r.item.assigned_members]),
             JointLoadLine(sd[st.i], factor, kind, st.lst))

JOINT_LOAD == <<"J", "O", "I", "N", "T", " ", "L", "O", "A", "D">>

SUPPORT_DISPLACEMENT_LOAD == <<"S", "U", "P", "P", "O", "R", "T", " ", "D", "I", "S", "P", "L", "A", "C", "E", "M", "E", "N", "T", " ", "L", "O", "A", "D">>

\* if 'JOINT LOAD' in std_data[i] (or 'SUPPORT DISPLACEMENT LOAD'): the block
JointLoadBlock(sd, st, factor, kind, header) ==
    IF st.raised # "none" THEN st
    ELSE IF st.i > Len(sd) THEN Fail(st, "IndexError")
    ELSE IF ~Contains(sd[st.i], header) THEN st
    ELSE JointLoadLines(sd, [st EXCEPT !.i = @ + 1], factor, kind)

\* the if-chain that finds the direction of a member load in the line
MemberDirections ==
    <<<<"G", "X">>, <<"G", "Y">>, <<"G", "Z">>, <<"P", "X">>, <<"P", "Y">>, <<"P", "Z">>, <<"X">>, <<"Y">>, <<"Z">>>>

\* the if-chain of a LIN line knows the local directions only
LinDirections == <<<<"X">>, <<"Y">>, <<"Z">>>>

\* the if-chain that finds the direction of an element load in the line
ElementDirections == <<<<"G", "X">>, <<"G", "Y">>, <<"G", "Z">>, <<"L", "X">>, <<"L", "Y">>, <<"L", "Z">>>>

\* the first direction of dirs that the line holds, None if it holds none
DirectionIn(line, dirs) ==
    LET has == {k \in 1..Len(dirs) : Contains(line, dirs[k])}
    IN IF has = {} THEN None ELSE Some(dirs[Min(has)])

UNI == <<"U", "N", "I">>

UMOM == <<"U", "M", "O", "M">>

CON == <<"C", "O", "N">>

LIN == <<"L", "I", "N">>

TRAP == <<"T", "R", "A", "P">>

PR == <<"P", "R">>

MemberKeywords == <<UNI, UMOM, CON, LIN, TRAP>>

\* every token of v from the place a to the place b is one float() accepts
AllFloats(v, a, b) == \A k \in a..b : k <= Len(v) /\ IsFloat(v[k])

\* d1, d2, d3 of UNI, UMOM and CON for the number of values on the line;
\* UNI keeps d1 as the str it read when there are two values
Distances(kw, v) ==
    [d1 |-> IF Len(v) = 1 THEN None
            ELSE IF Len(v) = 2 /\ kw = UNI THEN v[2] ELSE PyFloat(v[2]),
     d2 |-> IF Len(v) <= 2 THEN None ELSE PyFloat(v[3]),
     d3 |-> IF Len(v) <= 3 THEN None ELSE PyFloat(v[4])]

\* the places of v that Distances gives to float()
DistancesFloat(kw, v) ==
    IF Len(v) = 2 /\ kw = UNI THEN TRUE
    ELSE AllFloats(v, 2, IF Len(v) > 4 THEN 4 ELSE Len(v))

\* the item a member load line gives for the keyword kw, from the values v
\* that follow ' kw direction ' and the ids mem in front of it
MemberItem(kw, dir, v, mem, factor) ==
    IF kw \in {UNI, UMOM, CON}
    THEN IF ~IsFloat(v[1]) \/ ~DistancesFloat(kw, v)
         THEN [raised |-> "ValueError", item |-> <<>>]
         ELSE LET d == Distances(kw, v)
                  mag == Times(PyFloat(v[1]), factor)
              IN [raised |-> "none",
                  item |->
                    IF kw = UMOM
                    THEN [kind |-> "MEMBER LOAD", load_type |-> "uniform_moment",
                          moment |-> mag, direction |-> dir,
                          d1 |-> d.d1, d2 |-> d.d2, d3 |-> d.d3,
                          assigned_members |-> mem]
                    ELSE [kind |-> "MEMBER LOAD",
                          load_type |-> IF kw = UNI THEN "uniform_force"
                                        ELSE "concentrated_force",
                          force |-> mag, direction |-> dir,
                          d1 |-> d.d1, d2 |-> d.d2, d3 |-> d.d3,
                          assigned_members |-> mem]]
    ELSE IF kw = LIN
    THEN \* w1 = values_force[0] * factor: the str repeated, then float(w1)
         IF Len(v) < 2 THEN [raised |-> "IndexError", item |-> <<>>]
         ELSE IF ~IsFloat(StrMul(v[1], factor)) \/ ~IsFloat(StrMul(v[2], factor))
         THEN [raised |-> "ValueError", item |-> <<>>]
         ELSE [raised |-> "none",
               item |-> [kind |-> "MEMBER LOAD", load_type |-> "linear_varying",
                         direction |-> dir,
                         W1 |-> PyFloat(StrMul(v[1], factor)),
                         W2 |-> PyFloat(StrMul(v[2], factor)),
                         assigned_members |-> mem]]
    ELSE \* TRAP
         IF Len(v) < 4 THEN [raised |-> "IndexError", item |-> <<>>]
         ELSE IF ~AllFloats(v, 1, 4) THEN [raised |-> "ValueError", item |-> <<>>]
         ELSE [raised |-> "none",
               item |-> [kind |-> "MEMBER LOAD", load_type |-> "trapezoidal",
                         direction |-> dir,
                         W1 |-> Times(PyFloat(v[1]), factor),
                         W2 |-> Times(PyFloat(v[2]), factor),
                         d1 |-> Times(PyFloat(v[3]), factor),
                         d2 |-> Times(PyFloat(v[4]), factor),
                         assigned_members |-> mem]]

\* the item an element load line gives: three values are a concentrated
\* load with its place, otherwise a pressure on the full plate
ElementItem(dir, v, mem, factor) ==
    IF ~IsFloat(v[1]) \/ (Len(v) = 3 /\ ~AllFloats(v, 2, 3))
    THEN [raised |-> "ValueError", item |-> <<>>]
    ELSE IF Len(v) = 3
    THEN [raised |-> "none",
          item |-> [kind |-> "ELEMENT LOAD", load_type |-> "concentrate_load",
                    force |-> Times(PyFloat(v[1]), factor), direction |-> dir,
                    X |-> PyFloat(v[2]), Y |-> PyFloat(v[3]),
                    assigned_members |-> mem]]
    ELSE [raised |-> "none",
          item |-> [kind |-> "ELEMENT LOAD", load_type |-> "pressure_on_full_plate",
                    force |-> Times(PyFloat(v[1]), factor), direction |-> dir,
                    assigned_members |-> mem]]

\* if ' kw ' is in the line: the direction, the values after
\* ' kw direction ', the ids in front of it, and the item stored
KeywordItem(line, kw, dirs, st, factor) ==
    IF st.raised # "none" \/ ~Contains(line, SP \o kw \o SP) THEN st
    ELSE LET dir == DirectionIn(line, dirs)
         IN IF dir = None THEN Fail(st, "TypeError")
            ELSE LET parts == SplitStr(line, SP \o kw \o SP \o dir[1] \o SP)
                 IN IF Len(parts) < 2 THEN Fail(st, "IndexError")
                    ELSE Once(LAMBDA mem :
                             IF mem = ErrList THEN Fail(st, "ValueError")
                             ELSE Once(LAMBDA r :
                                      IF r.raised # "none"
                                      THEN Fail([st EXCEPT !.lst = mem], r.raised)
                                      ELSE [st EXCEPT !.lst = mem,
                                                      !.items = InsertItem(@, r.item)],
                                      IF kw = PR
                                      THEN ElementItem(dir[1], Split(parts[2], " "),
                                               mem, factor)
                                      ELSE MemberItem(kw, dir[1], Split(parts[2], " "),
                                               mem, factor)),
                             detail_members(Split(parts[1], " ")))

\* the five ifs for a line of a MEMBER LOAD block, one after the other
RECURSIVE MemberLine(_, _, _, _)
MemberLine(line, k, st, factor) ==
    IF k > Len(MemberKeywords) THEN st
    ELSE Once(LAMBDA s : MemberLine(line, k + 1, s, factor),
             KeywordItem(line, MemberKeywords[k],
                 IF MemberKeywords[k] = LIN THEN LinDirections ELSE MemberDirections,
                 st, factor))

\* while std_data[i].split(' ')[0].isnumeric(): the lines of a MEMBER LOAD
\* block (element = FALSE) or an ELEMENT LOAD block
RECURSIVE ItemLines(_, _, _, _)
ItemLines(sd, st, factor, element) ==
    IF st.raised # "none" THEN st
    ELSE IF st.i > Len(sd) THEN Fail(st, "IndexError")
    ELSE IF ~IsNumeric(FirstToken(sd[st.i])) THEN st
    ELSE Once(LAMBDA r :
                 ItemLines(sd, [r EXCEPT !.i = IF r.raised = "none" THEN @ + 1 ELSE @],
                     factor, element),
             IF element
             THEN KeywordItem(sd[st.i], PR, ElementDirections, st, factor)
             ELSE MemberLine(sd[st.i], 1, st, factor))

MEMBER_LOAD == <<"M", "E", "M", "B", "E", "R", " ", "L", "O", "A", "D">>

ELEMENT_LOAD == <<"E", "L", "E", "M", "E", "N", "T", " ", "L", "O", "A", "D">>

\* if 'MEMBER LOAD' in std_data[i] (or 'ELEMENT LOAD'): the block
ItemBlock(sd, st, factor, element) ==
    IF st.raised # "none" THEN st
    ELSE IF st.i > Len(sd) THEN Fail(st, "IndexError")
    ELSE IF ~Contains(sd[st.i], IF element THEN ELEMENT_LOAD ELSE MEMBER_LOAD)
    THEN st
    ELSE ItemLines(sd, [st EXCEPT !.i = @ + 1], factor, element)

SELFWEIGHT == <<"S", "E", "L", "F", "W", "E", "I", "G", "H", "T">>

REPEAT_LOAD == <<"R", "E", "P", "E", "A", "T", " ", "L", "O", "A", "D">>

LIST == <<"L", "I", "S", "T">>

ALL == <<"A", "L", "L">>

\* one SELFWEIGHT line: the direction, the factor, the members listed
SelfweightItem(line) ==
    LET dir == WordAfter(line, SELFWEIGHT)
        t == Split(line, " ")
        parts == SplitStr(line, SP \o LIST \o SP)
        mem == IF Contains(line, LIST)
               THEN (IF Len(parts) < 2 THEN Unbound
                     ELSE detail_members(Split(parts[2], " ")))
               ELSE <<ALL>>
    IN IF dir = <<>> \/ Len(t) < 3 \/ mem = Unbound
       THEN [raised |-> "IndexError", item |-> <<>>]
       ELSE IF mem = ErrList \/ ~IsFloat(t[3])
       THEN [raised |-> "ValueError", item |-> <<>>]
       ELSE [raised |-> "none",
             item |-> [kind |-> "SELFWEIGHT", direction |-> dir,
                       factor |-> PyFloat(t[3]), assigned_members |-> mem]]

\* while std_data[i].split(' ')[0] == 'SELFWEIGHT'
RECURSIVE SelfweightLines(_, _)
SelfweightLines(sd, st) ==
    IF st.raised # "none" THEN st
    ELSE IF st.i > Len(sd) THEN Fail(st, "IndexError")
    ELSE IF FirstToken(sd[st.i]) # SELFWEIGHT THEN st
    ELSE Once(LAMBDA r :
                 IF r.raised # "none" THEN Fail(st, r.raised)
                 ELSE Once(LAMBDA s : SelfweightLines(sd, s),
                          [st EXCEPT !.i = @ + 1, !.items = InsertItem(@, r.item),
                                     !.lst = r.item.assigned_members]),
             SelfweightItem(sd[st.i]))

\* dict_factors[tokens[j]] = float(tokens[j + 1]) for the even j: the dict
\* as a sequence of <<id, factor>> in the order of insertion
RECURSIVE RepeatFactors(_, _, _)
RepeatFactors(t, j, acc) ==
    IF j > Len(t) - 1 THEN acc
    ELSE IF j % 2 = 0 THEN RepeatFactors(t, j + 1, acc)
    ELSE LET known == {k \in 1..Len(acc) : acc[k][1] = t[j]}
             pair == <<t[j], PyFloat(t[j + 1])>>
         IN RepeatFactors(t, j + 1,
                IF known = {} THEN Append(acc, pair)
                ELSE [acc EXCEPT ![Min(known)] = pair])

\* if 'REPEAT LOAD' in std_data[i]: the line after it holds the pairs; the
\* item replaces the REPEAT LOAD item there was
RepeatBlock(sd, st) ==
    IF st.raised # "none" THEN st
    ELSE IF st.i > Len(sd) THEN Fail(st, "IndexError")
    ELSE IF ~Contains(sd[st.i], REPEAT_LOAD) THEN st
    ELSE IF st.i + 1 > Len(sd) THEN Fail([st EXCEPT !.i = @ + 1], "IndexError")
    ELSE LET t == Split(sd[st.i + 1], " ")
             item == [kind |-> "REPEAT LOAD", factors |-> RepeatFactors(t, 1, <<>>)]
             old == {k \in 1..Len(st.items) : st.items[k].kind = "REPEAT LOAD"}
         IN IF \E j \in 1..(Len(t) - 1) : j % 2 = 1 /\ ~IsFloat(t[j + 1])
            THEN Fail([st EXCEPT !.i = @ + 1], "ValueError")
            ELSE [st EXCEPT !.i = @ + 2,
                            !.items = IF old = {} THEN Append(@, item)
                                      ELSE [@ EXCEPT ![Min(old)] = item]]

\* the condition of the while loop over the blocks of a load case
IsItemBlock(line) ==
    \/ FirstToken(line) = SELFWEIGHT
    \/ Contains(line, JOINT_LOAD) \/ Contains(line, SUPPORT_DISPLACEMENT_LOAD)
    \/ Contains(line, MEMBER_LOAD) \/ Contains(line, ELEMENT_LOAD)
    \/ Contains(line, REPEAT_LOAD)

\* the while loop over the blocks of a load case: the six ifs in their order
RECURSIVE LoadBlocks(_, _, _)
LoadBlocks(sd, st, factor) ==
    IF st.raised # "none" THEN st
    ELSE IF st.i > Len(sd) THEN Fail(st, "IndexError")
    ELSE IF ~IsItemBlock(sd[st.i]) THEN st
    ELSE Once(LAMBDA s6 : LoadBlocks(sd, s6, factor),
         Once(LAMBDA s5 : ItemBlock(sd, s5, factor, TRUE),
         Once(LAMBDA s4 : RepeatBlock(sd, s4),
         Once(LAMBDA s3 : ItemBlock(sd, s3, factor, FALSE),
         Once(LAMBDA s2 : JointLoadBlock(sd, s2, factor, "SUPPORT DISPLACEMENT LOAD",
                              SUPPORT_DISPLACEMENT_LOAD),
         Once(LAMBDA s1 : JointLoadBlock(sd, s1, factor, "JOINT LOAD", JOINT_LOAD),
              IF FirstToken(sd[st.i]) = SELFWEIGHT
              THEN SelfweightLines(sd, st) ELSE st))))))

LOAD == <<"L", "O", "A", "D">>

LOADTYPE == <<"L", "O", "A", "D", "T", "Y", "P", "E">>

TITLE_LOAD_CASE == <<"T", "I", "T", "L", "E", " ", "L", "O", "A", "D", " ", "C", "A", "S", "E">>

\* the places where re.findall(r'LOAD\s\d', line) matches
LoadMatches(line) ==
    {i \in 1..(Len(line) - 5) :
        /\ SubSeq(line, i, i + 3) = LOAD
        /\ line[i + 4] = " "
        /\ line[i + 5] \in Digits}

\* the longest run of digits at the start of s
RECURSIVE DigitPrefix(_)
DigitPrefix(s) ==
    IF Len(s) > 0 /\ Head(s) \in Digits THEN <<Head(s)>> \o DigitPrefix(Tail(s))
    ELSE <<>>

\* the title line of a load case: load_id, load_type and load_name
LoadHeader(line) ==
    LET id == DigitPrefix(SubSeq(line, Min(LoadMatches(line)) + 5, Len(line)))
        type == IF Contains(line, LOADTYPE) THEN WordAfter(line, LOADTYPE)
                ELSE <<"L", "i", "v", "e">>
        t == Split(line, " ")
        case == WordAfter(line, TITLE_LOAD_CASE)
        after == SplitStr(line, TITLE \o SP)
    IN IF type = <<>> THEN [raised |-> "IndexError"]
       ELSE IF ~Contains(line, TITLE)
       THEN (IF Len(t) < 3 THEN [raised |-> "IndexError"]
             ELSE [raised |-> "none", load_id |-> id, load_type |-> type,
                   load_name |-> t[3]])
       ELSE IF case # <<>>
       THEN [raised |-> "none", load_id |-> id, load_type |-> type,
             load_name |-> <<"L", "O", "A", "D", " ", "C", "A", "S", "E", " ">> \o case]
       ELSE IF Len(after) < 2 THEN [raised |-> "IndexError"]
       ELSE [raised |-> "none", load_id |-> id, load_type |-> type,
             load_name |-> after[2]]

\* self.primary_loadcases[load_id] = {...}: the dict as a sequence in the
\* order of insertion
CaseSet(cases, c) ==
    LET known == {k \in 1..Len(cases) : cases[k].load_id = c.load_id}
    IN IF known = {} THEN Append(cases, c)
       ELSE [cases EXCEPT ![Min(known)] = c]

\* while re.findall(r'LOAD\s\d', std_data[i]): a load case, its blocks, and
\* the i += 1 that follows them
RECURSIVE LoadCases(_, _, _)
LoadCases(sd, st, factor) ==
    IF st.raised # "none" THEN st
    ELSE IF st.i > Len(sd) THEN Fail(st, "IndexError")
    ELSE IF LoadMatches(sd[st.i]) = {} THEN st
    ELSE Once(LAMBDA h :
             IF h.raised # "none" THEN Fail(st, h.raised)
             ELSE Once(LAMBDA b :
                      Once(LAMBDA s : LoadCases(sd, s, factor),
                          [b EXCEPT !.i = IF b.raised = "none" THEN @ + 1 ELSE @,
                                    !.cases =
                                        CaseSet(@, [load_id |-> h.load_id,
                                                    load_type |-> h.load_type,
                                                    load_name |-> h.load_name,
                                                    load_items |-> b.items])]),
                      LoadBlocks(sd, [st EXCEPT !.i = @ + 1, !.items = <<>>],
                          factor)),
             LoadHeader(sd[st.i]))

\* for i in range(len(std_data)): the while loop starts again at every line
RECURSIVE LoadScan(_, _, _, _)
LoadScan(sd, i, st, factor) ==
    IF i > Len(sd) \/ st.raised # "none" THEN st
    ELSE Once(LAMBDA s : LoadScan(sd, i + 1, s, factor),
             LoadCases(sd, [st EXCEPT !.i = i], factor))

get_primary_loadcases(sd, u) ==
    LoadScan(sd, 1,
        [i |-> 1, items |-> <<>>, cases |-> <<>>, lst |-> Unbound,
         raised |-> "none"],
        u.convert_factor_force)

\* the UNIT lines and the load blocks of a file, together
MaxParts == 3

\* the UNIT lines of a file: the two force units supported and another one
UnitLines == {<<"U", "N", "I", "T", " ", "M", "E", "T", "E", "R", " ", "K", "N">>, <<"U", "N", "I", "T", " ", "M", "M", "S", " ", "N">>, <<"U", "N", "I", "T", " ", "I", "N", "C", "H", "E", "S", " ", "K", "I", "P">>}

\* the title line of the first load case, with LOADTYPE and TITLE
LoadTitle == <<"L", "O", "A", "D", " ", "1", " ", "L", "O", "A", "D", "T", "Y", "P", "E", " ", "D", "e", "a", "d", " ", "T", "I", "T", "L", "E", " ", "D", "L">>

\* the second load case of the file: a title line without LOADTYPE and
\* TITLE, and a joint load
SecondCase == <<<<"L", "O", "A", "D", " ", "1", "2", " ", "W", "I", "N", "D">>, <<"J", "O", "I", "N", "T", " ", "L", "O", "A", "D">>, <<"3", " ", "F", "Z", " ", "5">>>>

\* the blocks of the first load case, one of every kind the decoder reads
BlockChoices ==
    {<<<<"S", "E", "L", "F", "W", "E", "I", "G", "H", "T", " ", "Y", " ", "-", "1">>>>,
     <<<<"J", "O", "I", "N", "T", " ", "L", "O", "A", "D">>, <<"1", " ", "2", " ", "F", "X", " ", "5", " ", "M", "Z", " ", "-", "3">>, <<"4", " ", "T", "O", " ", "6", " ", "F", "Y", " ", "-", "2", ".", "5">>>>,
     <<<<"S", "U", "P", "P", "O", "R", "T", " ", "D", "I", "S", "P", "L", "A", "C", "E", "M", "E", "N", "T", " ", "L", "O", "A", "D">>, <<"9", " ", "F", "Y", " ", "5", " ", "M", "X", " ", "2">>>>,
     <<<<"M", "E", "M", "B", "E", "R", " ", "L", "O", "A", "D">>, <<"1", " ", "U", "N", "I", " ", "G", "Y", " ", "5">>, <<"2", " ", "U", "M", "O", "M", " ", "G", "Z", " ", "5", " ", "0", ".", "5">>,
       <<"3", " ", "C", "O", "N", " ", "G", "X", " ", "5", " ", "0", ".", "5">>, <<"8", " ", "T", "R", "A", "P", " ", "G", "Y", " ", "5", " ", "1", "0", " ", "0", " ", "1">>>>,
     <<<<"M", "E", "M", "B", "E", "R", " ", "L", "O", "A", "D">>, <<"5", " ", "L", "I", "N", " ", "Y", " ", "5", " ", "1", "0">>>>,
     <<<<"E", "L", "E", "M", "E", "N", "T", " ", "L", "O", "A", "D">>, <<"7", " ", "P", "R", " ", "G", "Z", " ", "5">>>>,
     <<<<"R", "E", "P", "E", "A", "T", " ", "L", "O", "A", "D">>, <<"1", " ", "1", ".", "0", " ", "2", " ", "1", ".", "5">>>>}

\* the lines of the blocks, one block after the other
RECURSIVE Flatten(_)
Flatten(bs) == IF bs = <<>> THEN <<>> ELSE Head(bs) \o Flatten(Tail(bs))

PERFORM_ANALYSIS == <<"P", "E", "R", "F", "O", "R", "M", " ", "A", "N", "A", "L", "Y", "S", "I", "S">>

InitDecode ==
    /\ pc = "start" /\ raised = "none"
    /\ \E n \in 0..MaxParts : \E b \in 0..(MaxParts - n) :
       \E us \in [1..n -> UnitLines], bs \in [1..b -> BlockChoices] :
          std_data = us \o <<LoadTitle>> \o Flatten(bs) \o SecondCase
                        \o <<PERFORM_ANALYSIS, FINISH>>
    /\ mesh_nodes = <<>>
    /\ units = <<>> /\ primary_loadcases = <<>>
    /\ IdleRange /\ IdleWrap /\ IdlePack /\ IdleAxis
    /\ IdleComplete
    /\ IdleEncode
    /\ IdleJoin
    /\ IdleBeta

othersDecode == <<rangeVars, wrapVars, packVars, jointVars, axisVars,
      completeVars,
      encodeVars,
      joinVars,
      betaVars>>

\* read_file: self.get_unit(refine_data)
GetUnit ==
    /\ pc = "start"
    /\ LET r == get_unit(std_data)
       IN raised' = r.raised /\ units' = r.units
    /\ pc' = "units"
    /\ UNCHANGED <<primary_loadcases, othersDecode>>

\* read_file: self.get_primary_loadcases(refine_data)
GetPrimaryLoadcases ==
    /\ pc = "units" /\ raised = "none"
    /\ LET r == get_primary_loadcases(std_data, units)
       IN raised' = r.raised /\ primary_loadcases' = r.cases
    /\ pc' = "decoded"
    /\ UNCHANGED <<units, othersDecode>>

NextDecode == GetUnit \/ GetPrimaryLoadcases

SpecDecode == InitDecode /\ [][NextDecode]_vars

IsUnitLine(line) == Contains(line, <<"U", "N", "I", "T">>)

\* the force unit a units line declares: its third word
ForceToken(line) == SplitWS(line)[3]

\* C13: get_unit sets the multiplier to 1000 for KN and to 1 for N, raises
\* for any other force unit, leaves meters / kilonewtons with 1000 when the
\* file has no units line, and a multiplier it leaves is 1 or 1000.
C13_Units ==
    pc = "units" =>
        LET U == SelectSeq(std_data, IsUnitLine)
            supported == {<<"K", "N">>, <<"N">>}
        IN /\ U = <<>> =>
                  /\ raised = "none"
                  /\ units = [unit_dimension |-> <<"M", "E", "T", "E", "R">>, unit_force |-> <<"k", "N">>,
                              convert_factor_force |-> 1000]
           /\ (U # <<>> /\ \A k \in 1..Len(U) : ForceToken(U[k]) \in supported) =>
                  /\ raised = "none"
                  /\ units.unit_force = ForceToken(U[Len(U)])
                  /\ units.convert_factor_force =
                         IF ForceToken(U[Len(U)]) = <<"K", "N">> THEN 1000 ELSE 1
           /\ (\E k \in 1..Len(U) : ForceToken(U[k]) \notin supported) =>
                  raised = "NotImplementedError"
           /\ raised = "none" => units.convert_factor_force \in {1, 1000}

C13_Witness ==
    /\ pc = "units" /\ raised = "none"
    /\ SelectSeq(std_data, IsUnitLine) = <<<<"U", "N", "I", "T", " ", "M", "E", "T", "E", "R", " ", "K", "N">>, <<"U", "N", "I", "T", " ", "M", "M", "S", " ", "N">>>>
    /\ units.convert_factor_force = 1

\* the load items of the document, of every load case
RECURSIVE AllLoadItems(_)
AllLoadItems(cases) ==
    IF cases = <<>> THEN <<>>
    ELSE Head(cases).load_items \o AllLoadItems(Tail(cases))

\* line k of the file is an item line of the block that starts with header
InBlockOf(sd, k, header) ==
    \E h \in 1..(k - 1) :
        /\ sd[h] = header
        /\ \A j \in (h + 1)..k : IsNumeric(SplitWS(sd[j])[1])

\* the number written n words after the word w of the line, in thousandths
WrittenAfter(t, w, n) ==
    StrToFloat(t[(CHOOSE p \in 1..Len(t) : t[p] = w) + n])

HasWord(t, w) == \E p \in 1..Len(t) : t[p] = w

\* the item decoded from the line with the words t: its kind, its first id
ItemsOf(t, kind) ==
    LET all == AllLoadItems(primary_loadcases)
    IN {k \in 1..Len(all) :
           all[k].kind = kind /\ all[k].assigned_members[1] = t[1]}

\* a component of a joint load is the number written times the multiplier,
\* and None when the line does not hold it
ComponentScaled(t, w, v, factor) ==
    IF HasWord(t, w) THEN v = Some(WrittenAfter(t, w, 1) * factor)
    ELSE v = None

\* C14: every joint load component, every UNI, UMOM, CON, LIN and TRAP
\* magnitude and every PR magnitude stored by get_primary_loadcases is the
\* number written in the file times the force-unit multiplier.
C14_UnitScaling ==
    pc = "decoded" /\ raised = "none" =>
        \A k \in 1..Len(std_data) :
            LET t == SplitWS(std_data[k])
                f == units.convert_factor_force
                all == AllLoadItems(primary_loadcases)
                mag(w, n) == Some(WrittenAfter(t, w, n) * f)
            IN /\ InBlockOf(std_data, k, <<"J", "O", "I", "N", "T", " ", "L", "O", "A", "D">>) =>
                      /\ ItemsOf(t, "JOINT LOAD") # {}
                      /\ \A j \in ItemsOf(t, "JOINT LOAD") :
                             /\ ComponentScaled(t, <<"F", "X">>, all[j].FX, f)
                             /\ ComponentScaled(t, <<"F", "Y">>, all[j].FY, f)
                             /\ ComponentScaled(t, <<"F", "Z">>, all[j].FZ, f)
                             /\ ComponentScaled(t, <<"M", "X">>, all[j].MX, f)
                             /\ ComponentScaled(t, <<"M", "Y">>, all[j].MY, f)
                             /\ ComponentScaled(t, <<"M", "Z">>, all[j].MZ, f)
               /\ InBlockOf(std_data, k, <<"M", "E", "M", "B", "E", "R", " ", "L", "O", "A", "D">>) =>
                      /\ ItemsOf(t, "MEMBER LOAD") # {}
                      /\ \A j \in ItemsOf(t, "MEMBER LOAD") :
                             /\ HasWord(t, <<"U", "N", "I">>) => all[j].force = mag(<<"U", "N", "I">>, 2)
                             /\ HasWord(t, <<"C", "O", "N">>) => all[j].force = mag(<<"C", "O", "N">>, 2)
                             /\ HasWord(t, <<"U", "M", "O", "M">>) => all[j].moment = mag(<<"U", "M", "O", "M">>, 2)
                             /\ HasWord(t, <<"L", "I", "N">>) =>
                                    /\ all[j].W1 = mag(<<"L", "I", "N">>, 2)
                                    /\ all[j].W2 = mag(<<"L", "I", "N">>, 3)
                             /\ HasWord(t, <<"T", "R", "A", "P">>) =>
                                    /\ all[j].W1 = mag(<<"T", "R", "A", "P">>, 2)
                                    /\ all[j].W2 = mag(<<"T", "R", "A", "P">>, 3)
               /\ InBlockOf(std_data, k, <<"E", "L", "E", "M", "E", "N", "T", " ", "L", "O", "A", "D">>) =>
                      /\ ItemsOf(t, "ELEMENT LOAD") # {}
                      /\ \A j \in ItemsOf(t, "ELEMENT LOAD") :
                             HasWord(t, <<"P", "R">>) => all[j].force = mag(<<"P", "R">>, 2)

(***************************************************************************)
(* check_required_information: the completeness check of a decoded file    *)
(***************************************************************************)
\* the warnings are what is printed before the function raises or returns
check_required_information(raw_data) ==
    LET w1 == IF raw_data.joint_coordinates = <<>> THEN <<"node">> ELSE <<>>
        w2 == IF raw_data.member_incidences = <<>> THEN <<"member">> ELSE <<>>
        w3 == IF raw_data.element_incidences_shell = <<>> THEN <<"plate">> ELSE <<>>
        w4 == IF raw_data.primary_loadcases = <<>> THEN <<"loadcase">> ELSE <<>>
        w5 == IF raw_data.load_combinations = <<>>
              THEN <<"load combination">> ELSE <<>>
    IN IF raw_data.materials = <<>>
       THEN [raised |-> "NotImplementedError", warnings |-> w1 \o w2 \o w3]
       ELSE IF raw_data.member_properties = <<>>
               /\ raw_data.member_incidences # <<>>
       THEN [raised |-> "NotImplementedError", warnings |-> w1 \o w2 \o w3]
       ELSE IF raw_data.element_properties = <<>>
               /\ raw_data.element_incidences_shell # <<>>
       THEN [raised |-> "NotImplementedError", warnings |-> w1 \o w2 \o w3]
       ELSE [raised |-> "none", warnings |-> w1 \o w2 \o w3 \o w4 \o w5]

\* the collections of the decoded file that the check reads
RawData ==
    [joint_coordinates |-> joint_coordinates,
     member_incidences |-> member_incidences,
     element_incidences_shell |-> element_incidences_shell,
     materials |-> materials,
     member_properties |-> member_properties,
     element_properties |-> element_properties,
     primary_loadcases |-> primary_loadcases,
     load_combinations |-> load_combinations]

\* a collection is empty or holds one entry; a member needs its joints
InitComplete ==
    /\ pc = "start" /\ raised = "none" /\ warnings = <<>>
    /\ joint_coordinates \in {<<>>} \cup JointChoices
    /\ member_incidences \in
           IF joint_coordinates = <<>> THEN {<<>>}
           ELSE {<<>>,
                 <<[id |-> ID1, start_node_ID |-> ID1, end_node_ID |-> ID2,
                    start_node |-> Lookup(joint_coordinates, ID1),
                    end_node |-> Lookup(joint_coordinates, ID2)]>>}
    /\ element_incidences_shell \in
           {<<>>, <<[id |-> ID1, node_1 |-> ID1, node_2 |-> ID2,
                     node_3 |-> <<"3">>, node_4 |-> None]>>}
    /\ materials \in {<<>>, <<[name |-> <<"S", "T", "E", "E", "L">>, feature |-> "isotropic"]>>}
    /\ member_properties \in
           {<<>>, <<[table_no |-> <<"1">>, assigned_beam |-> <<ID1>>]>>}
    /\ element_properties \in
           {<<>>, <<[node_1 |-> Some(200), assigned_plate |-> <<ID1>>]>>}
    /\ primary_loadcases \in
           {<<>>, <<[load_id |-> ID1, load_type |-> <<"D", "e", "a", "d">>,
                     load_name |-> <<"D", "L">>, load_items |-> <<>>]>>}
    /\ load_combinations \in
           {<<>>, <<[loadcomb_id |-> <<"3">>, loadcomb_name |-> <<"U", "L", "S">>,
                     factors |-> <<<<ID1, Some(1350)>>>>]>>}
    /\ units = DefaultUnits
    /\ direction = "Z" /\ supports = <<>> /\ load_items = <<>> /\ old_doc = <<>>
    /\ IdleRange /\ IdleWrap /\ IdlePack /\ IdleJoint
    /\ IdleEncode
    /\ IdleJoin
    /\ IdleBeta

othersComplete ==
    <<rangeVars, wrapVars, packVars, jointVars, axisVars, decodeVars,
      element_incidences_shell, materials, member_properties,
      element_properties, load_combinations,
      encodeVars,
      joinVars,
      betaVars>>

\* _fem_staad_to_fem: check_required_information(RawStdFile(std_file))
CheckRequiredInformation ==
    /\ pc = "start"
    /\ LET r == check_required_information(RawData)
       IN raised' = r.raised /\ warnings' = r.warnings
    /\ pc' = "checked"
    /\ UNCHANGED othersComplete

NextComplete == CheckRequiredInformation

SpecComplete == InitComplete /\ [][NextComplete]_vars

\* C15: check_required_information raises exactly when materials are absent
\* and a member or a shell element exists, or member properties are absent
\* and members exist, or element properties are absent and shell elements
\* exist; otherwise it returns, whatever else is absent.
C15_Completeness ==
    pc = "checked" =>
        (raised # "none" <=>
            \/ /\ materials = <<>>
               /\ (member_incidences # <<>> \/ element_incidences_shell # <<>>)
            \/ member_properties = <<>> /\ member_incidences # <<>>
            \/ element_properties = <<>> /\ element_incidences_shell # <<>>)

(***************************************************************************)
(* The encoder: fem_create_envelope_combination and                        *)
(* _fem_create_model_staad.  The model project holds mesh nodes, shapes,   *)
(* load cases, load groups and load combinations; its other collections    *)
(* (lines, surfaces, groups, geometries, materials, supports, connections) *)
(* are empty, so their blocks and offsets_to_staad add no line.            *)
(***************************************************************************)
ENVELOPE == <<"E", "N", "V", "E", "L", "O", "P", "E">>

\* the id written for a combination, given len(project.collections.loadcases)
EnvelopeCombinationId(comb, n) ==
    IF comb.id > n /\ comb.id > 99
    THEN comb.id
    ELSE Max({n + comb.id, 99 + comb.id})

\* data[category]: the categories in the order they were first seen; the
\* envelope id of a category is its place in that order
EnvelopeOf(seen, category) ==
    CHOOSE e \in 1..Len(seen) : seen[e] = category

EnvelopeLine(comb, n, e) ==
    IntToStr(EnvelopeCombinationId(comb, n)) \o SP \o ENVELOPE \o SP \o IntToStr(e)

RECURSIVE EnvelopeLines(_, _, _, _, _)
EnvelopeLines(combs, k, n, seen, lst) ==
    IF k > Len(combs) THEN lst
    ELSE LET comb == combs[k]
         IN IF comb.category = None
            THEN EnvelopeLines(combs, k + 1, n, seen, lst)
            ELSE IF \E e \in 1..Len(seen) : seen[e] = comb.category[1]
            THEN EnvelopeLines(combs, k + 1, n, seen,
                     Append(lst, EnvelopeLine(comb, n,
                                     EnvelopeOf(seen, comb.category[1]))))
            ELSE EnvelopeLines(combs, k + 1, n, Append(seen, comb.category[1]),
                     Append(lst, EnvelopeLine(comb, n, Len(seen) + 1)))

\* returns what _check_duplicate_entries returns: raised, data, out
fem_create_envelope_combination(combs, n) ==
    check_duplicate_entries(EnvelopeLines(combs, 1, n, <<>>, <<>>), 0)

\* the lines that do not depend on the collections
STAAD_SPACE == <<"S", "T", "A", "A", "D", " ", "S", "P", "A", "C", "E", " ">>

PROJECT_NAME == <<"P">>

START_JOB_INFORMATION == <<"S", "T", "A", "R", "T", " ", "J", "O", "B", " ", "I", "N", "F", "O", "R", "M", "A", "T", "I", "O", "N">>

\* 'ENGINEER DATE ' + date.today(), on one day
ENGINEER_DATE == <<"E", "N", "G", "I", "N", "E", "E", "R", " ", "D", "A", "T", "E", " ", "0", "3", "/", "1", "1", "/", "2", "0", "2", "6">>

ENGINEER_NAME == <<"E", "N", "G", "I", "N", "E", "E", "R", " ", "N", "A", "M", "E", " ">>

JOB_PART == <<"J", "O", "B", " ", "P", "A", "R", "T", " ">>

END_JOB_INFORMATION == <<"E", "N", "D", " ", "J", "O", "B", " ", "I", "N", "F", "O", "R", "M", "A", "T", "I", "O", "N">>

INPUT_WIDTH == <<"I", "N", "P", "U", "T", " ", "W", "I", "D", "T", "H", " ", "7", "9">>

UNIT_METER_KN == <<"U", "N", "I", "T", " ", "M", "E", "T", "E", "R", " ", "K", "N">>

SET_Z_UP == <<"S", "E", "T", " ", "Z", " ", "U", "P">>

DEFINE_ENVELOPE == <<"D", "E", "F", "I", "N", "E", " ", "E", "N", "V", "E", "L", "O", "P", "E">>

END_DEFINE_ENVELOPE == <<"E", "N", "D", " ", "D", "E", "F", "I", "N", "E", " ", "E", "N", "V", "E", "L", "O", "P", "E">>

LOAD_COMB == <<"L", "O", "A", "D", " ", "C", "O", "M", "B", " ">>

\* shape.mesh_shape: the shape gets a mesh
mesh_shape(shape) == [shape EXCEPT !.mesh = Some("mesh")]

\* the loop over the shapes: an unmeshed Polyline or Line shape is meshed, a
\* shape with another contour raises, after the shapes before it were meshed
RECURSIVE CheckShapesMeshed(_, _)
CheckShapesMeshed(shps, k) ==
    IF k > Len(shps) THEN [raised |-> "none", shapes |-> shps]
    ELSE IF shps[k].contour \in {"Polyline", "Line"}
    THEN CheckShapesMeshed(
             IF shps[k].mesh = None THEN [shps EXCEPT ![k] = mesh_shape(shps[k])]
             ELSE shps, k + 1)
    ELSE [raised |-> "NotImplementedError", shapes |-> shps]

\* LoadCase.to_staad: the header line of the load case
loadcase_to_staad(lc) ==
    <<LOAD \o SP \o IntToStr(lc.id) \o SP \o TITLE \o SP \o lc.name>>

\* LoadCombination.to_staad: the header and the factor line; for a repeat
\* load the factor line alone, under the REPEAT LOAD line the encoder writes
loadcombination_to_staad(comb) ==
    IF comb.non_linear_combination
    THEN <<<<"1", " ", "1", ".", "0">>>>
    ELSE <<LOAD_COMB \o IntToStr(comb.id) \o SP \o <<"C">>, <<"1", " ", "1", ".", "0">>>>

\* project.find(name, 'loadgroups'): None when no load group has the name
find(name, groups) ==
    IF \E g \in 1..Len(groups) : groups[g] = name THEN Some(name) ELSE None

\* project.create_loadgroup(name): the load group is added to the project
create_loadgroup(name, groups) == Append(groups, name)

\* project.create_loadcase(name, loadgroup): the load case is added to the
\* project under the next free id
create_loadcase(name, cases) ==
    Append(cases, [id |-> Max({0} \cup {cases[c].id : c \in 1..Len(cases)}) + 1,
                   name |-> name])

RepeatLoadName(counter) == <<"R", "e", "p", "e", "a", "t", " ", "L", "o", "a", "d", " ">> \o IntToStr(counter)

\* the loop that writes the repeat loads: every combination flagged
\* non_linear_combination gets a load group named 'None' (created when the
\* project has none) and a new load case
RECURSIVE WriteRepeatLoads(_, _, _, _)
WriteRepeatLoads(combs, k, counter, st) ==
    IF k > Len(combs) THEN st
    ELSE IF combs[k].non_linear_combination
    THEN LET groups == IF find("None", st.loadgroups) = None
                       THEN create_loadgroup("None", st.loadgroups)
                       ELSE st.loadgroups
             cases == create_loadcase(RepeatLoadName(counter + 1), st.loadcases)
         IN WriteRepeatLoads(combs, k + 1, counter + 1,
                [loadgroups |-> groups, loadcases |-> cases,
                 content |-> st.content \o loadcase_to_staad(cases[Len(cases)])
                             \o <<REPEAT_LOAD>>
                             \o loadcombination_to_staad(combs[k])])
    ELSE WriteRepeatLoads(combs, k + 1, counter, st)

RECURSIVE WriteLoadCases(_, _)
WriteLoadCases(cases, k) ==
    IF k > Len(cases) THEN <<>>
    ELSE loadcase_to_staad(cases[k]) \o WriteLoadCases(cases, k + 1)

RECURSIVE WriteLoadCombinations(_, _)
WriteLoadCombinations(combs, k) ==
    IF k > Len(combs) THEN <<>>
    ELSE (IF combs[k].non_linear_combination THEN <<>>
          ELSE loadcombination_to_staad(combs[k]))
         \o WriteLoadCombinations(combs, k + 1)

\* the std-file after the call: it is opened and written once the whole
\* list_content is built, so a call that raised left it as it was
StdFileOpenedFirst(e, content, file) ==
    IF e = "none" THEN Some(content) ELSE Some(<<>>)

WriteStdFile(e, content, file) ==
    IF e = "none" THEN Some(content) ELSE file

\* _fem_create_model_staad(project): what it raises, the collections it
\* leaves, the lines it assembled and the std-file it leaves
fem_create_model_staad(p, limit, file) ==
    LET info == p.project_information
        Result(e, shps, cases, groups, content) ==
            [raised |-> e, shapes |-> shps, loadcases |-> cases,
             loadgroups |-> groups, list_content |-> content,
             std_file |-> WriteStdFile(e, content, file)]
        head1 == <<STAAD_SPACE \o PROJECT_NAME, START_JOB_INFORMATION,
                   ENGINEER_DATE>>
    IN IF info.author = None
       THEN Result("TypeError", p.shapes, p.loadcases, p.loadgroups, head1)
       ELSE IF info.part = None
       THEN Result("TypeError", p.shapes, p.loadcases, p.loadgroups,
                   head1 \o <<ENGINEER_NAME \o info.author[1]>>)
       ELSE
       LET head == head1 \o <<ENGINEER_NAME \o info.author[1],
                              JOB_PART \o info.part[1], END_JOB_INFORMATION,
                              INPUT_WIDTH, UNIT_METER_KN, SET_Z_UP>>
           sh == CheckShapesMeshed(p.shapes, 1)
       IN IF sh.raised # "none"
          THEN Result(sh.raised, sh.shapes, p.loadcases, p.loadgroups, head)
          ELSE
          LET joints == <<JOINT_COORDINATES>>
                        \o check_row_length(limit,
                               [i \in 1..Len(p.mesh_nodes) |->
                                   to_staad(p.mesh_nodes[i])])
              cases == WriteLoadCases(p.loadcases, 1)
              rep == WriteRepeatLoads(p.loadcombinations, 1, 0,
                         [loadgroups |-> p.loadgroups,
                          loadcases |-> p.loadcases,
                          content |-> head \o joints \o cases])
              combs == WriteLoadCombinations(p.loadcombinations, 1)
              body == rep.content \o combs \o <<PERFORM_ANALYSIS>>
              env == fem_create_envelope_combination(p.loadcombinations,
                                                     Len(rep.loadcases))
          IN IF env.raised # "none"
             THEN Result(env.raised, sh.shapes, rep.loadcases, rep.loadgroups,
                         body)
             ELSE Result("none", sh.shapes, rep.loadcases, rep.loadgroups,
                         body
                         \o (IF env.out # <<>>
                             THEN <<DEFINE_ENVELOPE>> \o env.out
                                  \o <<END_DEFINE_ENVELOPE>>
                             ELSE <<>>)
                         \o <<FINISH>>)

MaxObjects == 2

MaxLoadCases == 1

Contours == {"Polyline", "Line", "Arc"}

Shapes == [contour : Contours, mesh : {None, Some("mesh")}]

\* combination ids below and above the 99 that the envelope writer adds
CombinationIds == {1, 100, 101}

Categories == {None, Some("A"), Some("B")}

ProjectInformations ==
    {[author |-> Some(<<"E", "H">>), part |-> Some(<<"1">>)],
     [author |-> None, part |-> Some(<<"1">>)],
     [author |-> Some(<<"E", "H">>), part |-> None]}

Project ==
    [project_information |-> project_information, mesh_nodes |-> mesh_nodes,
     shapes |-> shapes, loadcases |-> loadcases, loadgroups |-> loadgroups,
     loadcombinations |-> loadcombinations]

InitEncode ==
    /\ pc = "start" /\ raised = "none"
    /\ project_information \in ProjectInformations
    /\ mesh_nodes = <<[id |-> 1, coordinates |-> <<10000, 20000, 0>>]>>
    /\ \E s \in 0..MaxObjects : \E c \in 0..(MaxObjects - s) :
          /\ shapes \in [1..s -> Shapes]
          /\ \E S \in SUBSET CombinationIds :
                /\ Cardinality(S) = c
                /\ \E cat \in [S -> Categories], nl \in [S -> BOOLEAN] :
                      loadcombinations =
                          [i \in 1..c |->
                              [id |-> AscSeq(S)[i], category |-> cat[AscSeq(S)[i]],
                               non_linear_combination |-> nl[AscSeq(S)[i]]]]
    /\ \E n \in 0..MaxLoadCases :
          loadcases = [i \in 1..n |-> [id |-> i, name |-> <<"D", "L">>]]
    /\ loadgroups \in {<<>>, <<"None">>}
    /\ list_content = <<>>
    /\ std_file \in {None, Some(<<<<"S", "T", "A", "A", "D", " ", "S", "P", "A", "C", "E", " ", "O", "L", "D">>, FINISH>>)}
    /\ old_project = [shapes |-> shapes, loadcases |-> loadcases,
                      loadgroups |-> loadgroups,
                      loadcombinations |-> loadcombinations,
                      std_file |-> std_file]
    /\ std_data = <<>>
    /\ IdleRange /\ IdleWrap /\ IdlePack /\ IdleAxis /\ IdleDecode
    /\ IdleComplete
    /\ IdleJoin
    /\ IdleBeta

othersEncode ==
    <<rangeVars, wrapVars, packVars, std_data, axisVars, decodeVars,
      completeVars,
      joinVars,
      betaVars>>

FemCreateModelStaad ==
    /\ pc = "start"
    /\ LET r == fem_create_model_staad(Project, staad_column_limit, std_file)
       IN /\ raised' = r.raised
          /\ shapes' = r.shapes
          /\ loadcases' = r.loadcases
          /\ loadgroups' = r.loadgroups
          /\ list_content' = r.list_content
          /\ std_file' = r.std_file
    /\ pc' = "encoded"
    /\ UNCHANGED <<project_information, mesh_nodes, loadcombinations,
                   old_project, othersEncode>>

NextEncode == FemCreateModelStaad

SpecEncode == InitEncode /\ [][NextEncode]_vars

\* C16: a call of _fem_create_model_staad that raises leaves the std-file as
\* it was before the call (absent, or with its old lines), and a call that
\* returns leaves the file holding exactly the assembled content, complete up
\* to its FINISH line.
C16_NoPartialFile ==
    pc = "encoded" =>
        /\ raised # "none" => std_file = old_project.std_file
        /\ raised = "none" =>
               /\ std_file = Some(list_content)
               /\ list_content[Len(list_content)] = FINISH

C16_Witness ==
    /\ pc = "encoded"
    /\ raised = "NotImplementedError"
    /\ \E k \in 1..Len(shapes) : shapes[k].contour = "Arc"
    /\ list_content # <<>>
    /\ old_project.std_file # None
    /\ std_file = old_project.std_file

\* every shape has a Polyline or Line contour and a mesh
FullyMeshed(shps) ==
    \A k \in 1..Len(shps) :
        shps[k].contour \in {"Polyline", "Line"} /\ shps[k].mesh # None

\* C17: a call of _fem_create_model_staad on a fully meshed model leaves the
\* shapes, load cases, load groups and load combinations of the model as they
\* were, also when a combination is flagged non_linear_combination.
C17_PureSerializer ==
    pc = "encoded" /\ FullyMeshed(old_project.shapes) =>
        /\ shapes = old_project.shapes
        /\ loadcases = old_project.loadcases
        /\ loadgroups = old_project.loadgroups
        /\ loadcombinations = old_project.loadcombinations

\* the lines of list_content between DEFINE ENVELOPE and END DEFINE ENVELOPE
EnvelopeBlock ==
    IF \E a \in 1..Len(list_content) : list_content[a] = DEFINE_ENVELOPE
    THEN LET a == CHOOSE i \in 1..Len(list_content) :
                      list_content[i] = DEFINE_ENVELOPE
             b == CHOOSE i \in 1..Len(list_content) :
                      list_content[i] = END_DEFINE_ENVELOPE
         IN SubSeq(list_content, a + 1, b - 1)
    ELSE <<>>

\* the combination ids an envelope line names, its id list expanded
WrittenIds(line) ==
    LET t == SplitWS(line)
        e == CHOOSE i \in 1..Len(t) : t[i] = ENVELOPE
        ids == detail_members(SubSeq(t, 1, e - 1))
    IN {StrToInt(ids[i]) : i \in 1..Len(ids)}

\* C18: the combination ids written into the DEFINE ENVELOPE block are the
\* model ids of the combinations that have a category: every such combination
\* is written under its own id and no other id is written.
C18_EnvelopeIds ==
    pc = "encoded" /\ raised = "none" =>
        UNION {WrittenIds(EnvelopeBlock[i]) : i \in 1..Len(EnvelopeBlock)}
            = {loadcombinations[k].id :
                  k \in {j \in 1..Len(loadcombinations) :
                            loadcombinations[j].category # None}}

(***************************************************************************)
(* The line joiner of RawStdFile.read_file on the physical lines of a file *)
(***************************************************************************)
MaxLines == 3

\* physical lines: plain, continued with and without a blank before the
\* marker, with a blank after the marker, TITLE lines that end in the marker,
\* comments (at the start, after a blank, ending in the marker), a line that
\* holds '*' later in its text, and a blank line
PhysicalLines ==
    {<<"A", " ", "1">>, <<"B", " ", "-">>, <<"C", "-">>, <<"D", " ", "-", " ">>, <<"T", "I", "T", "L", "E", " ", "T", " ", "-">>, <<"T", "I", "T", "L", "E", " ", "U", " ", "-", " ">>,
     <<"*", " ", "c">>, <<" ", "*", " ", "c">>, <<"*", " ", "c", " ", "-">>, <<"E", " ", "*", "x">>, <<>>}

InitJoin ==
    /\ pc = "start" /\ raised = "none"
    /\ \E n \in 1..MaxLines : file_lines \in [1..n -> PhysicalLines]
    /\ IdleRange /\ IdleWrap /\ IdlePack /\ IdleJoint /\ IdleAxis
    /\ IdleDecode /\ IdleComplete /\ IdleEncode
    /\ IdleBeta

othersJoin ==
    <<rangeVars, string_to_check, split_string, packVars, jointVars, axisVars,
      decodeVars, completeVars, encodeVars,
      betaVars>>

\* read_file, up to the logical lines
JoinLines ==
    /\ pc = "start"
    /\ LET r == LineJoiner(file_lines)
       IN IF r = ErrList
          THEN raised' = "IndexError" /\ UNCHANGED refine_data
          ELSE raised' = "none" /\ refine_data' = r
    /\ pc' = "joined"
    /\ UNCHANGED <<file_lines, othersJoin>>

NextJoin == JoinLines

SpecJoin == InitJoin /\ [][NextJoin]_vars

\* a physical line that is neither blank nor a comment
IsContent(line) == line # <<>> /\ ~Contains(line, <<"*">>)

\* the line ends with the marker, or with the marker and one blank
EndsWithMarker(line) ==
    LastChars(line, 1) = <<"-">> \/ LastChars(line, 2) = <<"-", " ">>

\* the content lines that start a logical line: the first line of the file,
\* and every line whose previous line is not a continued line
StartsLogicalLine(i) ==
    /\ IsContent(file_lines[i])
    /\ \/ i = 1
       \/ ~EndsWithMarker(file_lines[i - 1])
       \/ Contains(file_lines[i - 1], TITLE)

\* C19: the joiner returns one logical line for every content line that has
\* no previous line, or whose previous line does not end with the marker or
\* contains TITLE; every other content line is merged into the logical line
\* before it.
C19_ContinuationRule ==
    pc = "joined" =>
        /\ raised = "none"
        /\ Len(refine_data)
               = Cardinality({i \in 1..Len(file_lines) : StartsLogicalLine(i)})

\* the line without the blank that follows its marker
StripAfterMarker(line) ==
    IF LastChars(line, 2) = <<"-", " ">> THEN SubSeq(line, 1, Len(line) - 1)
    ELSE line

StripAll(ls) == [i \in 1..Len(ls) |-> StripAfterMarker(ls[i])]

\* C20: the logical lines of a file are those of the same file with the
\* blank after every marker removed.
C20_MarkerTrailingSpace ==
    pc = "joined" /\ raised = "none" =>
        /\ LineJoiner(StripAll(file_lines)) # ErrList
        /\ StripAll(refine_data) = StripAll(LineJoiner(StripAll(file_lines)))

\* the line without its leading blanks
RECURSIVE LStrip(_)
LStrip(line) ==
    IF Len(line) > 0 /\ Head(line) = " " THEN LStrip(Tail(line)) ELSE line

\* a comment: the first character that is not a blank is '*'
StartsWithStar(line) == LStrip(line) # <<>> /\ Head(LStrip(line)) = "*"

\* C21: a physical line that starts with '*', possibly after blanks, gives
\* nothing to the logical lines; a line that is neither such a comment nor
\* empty gives its content to a logical line, also when it holds '*' later
\* in its text (stated for the lines that do not end with the marker, whose
\* content is the whole line).
C21_CommentRemoval ==
    pc = "joined" /\ raised = "none" =>
        \A i \in 1..Len(file_lines) :
            /\ StartsWithStar(file_lines[i]) =>
                   \A k \in 1..Len(refine_data) :
                       ~Contains(refine_data[k], file_lines[i])
            /\ (/\ ~StartsWithStar(file_lines[i]) /\ file_lines[i] # <<>>
                /\ ~EndsWithMarker(file_lines[i])) =>
                   \E k \in 1..Len(refine_data) :
                       Contains(refine_data[k], file_lines[i])

\* the physical lines that are neither comments nor empty
RECURSIVE WithoutComments(_)
WithoutComments(ls) ==
    IF ls = <<>> THEN <<>>
    ELSE IF StartsWithStar(Head(ls)) \/ Head(ls) = <<>>
    THEN WithoutComments(Tail(ls))
    ELSE <<Head(ls)>> \o WithoutComments(Tail(ls))

\* C27: the joiner gives for a file what it gives for the same file with the
\* comment lines and the empty lines deleted beforehand: the same logical
\* lines, or the same failure.
C27_CommentsDoNotAffectJoining ==
    pc = "joined" =>
        IF raised = "none"
        THEN LineJoiner(WithoutComments(file_lines)) = refine_data
        ELSE LineJoiner(WithoutComments(file_lines)) = ErrList

\* ---------------------------------------------------------------------------
\* _check_duplicate_entries with feature texts close to the column limit

MaxClauseId == 5

\* a one-word feature text of n characters
LongFeature(n) == Rep("F", n)

FeatureLengths == (LIMIT - 8)..(LIMIT - 1)

ClauseFeatures == {LongFeature(n) : n \in FeatureLengths} \cup {SPRINGS}

InitClause ==
    /\ pc = "start" /\ raised = "none"
    /\ \E S \in (SUBSET (1..MaxClauseId)) \ {{}}, S2 \in {{}, {2, 3}},
          f \in ClauseFeatures, pos \in {0, -1} :
          /\ features_in =
                 <<[feature |-> f, ids |-> S]>>
                 \o (IF S2 = {} THEN <<>> ELSE <<[feature |-> FeatGroup, ids |-> S2]>>)
          /\ position = pos
          /\ string_list = AllEntries(features_in, pos, FALSE)
    /\ data = <<>> /\ out_list = <<>> /\ members = <<>>
    /\ IdleWrap /\ IdlePack /\ IdleJoint /\ IdleAxis
    /\ IdleDecode
    /\ IdleComplete
    /\ IdleEncode
    /\ IdleJoin
    /\ IdleBeta

SpecClause == InitClause /\ [][NextRange]_vars

\* C22: for entries whose feature text is shorter than the limit, every
\* returned line has at most 78 characters, on one line and wrapped; with the
\* feature after the ids (position 0), when the ids, one blank and the feature
\* exceed the limit, the ids end in ' -' and the feature stands alone on the
\* following line.
C22_ClauseWrapperLimit ==
    pc = "compressed" /\ raised = "none" =>
        /\ \A k \in 1..Len(out_list) : Len(out_list[k]) <= LIMIT
        /\ \A f \in {features_in[1]} :
               LET list_of_shapes == CompressIds(AscSeq(f.ids))
               IN (/\ position = 0 /\ ~Contains(f.feature, SPRINGS)
                   /\ Len(list_of_shapes) <= LIMIT - 2
                   /\ Len(list_of_shapes) + 1 + Len(f.feature) > LIMIT) =>
                      /\ Len(out_list) >= 2
                      /\ out_list[1] = list_of_shapes \o SP \o <<"-">>
                      /\ out_list[2] = f.feature

\* the lines of the groups, each rendered by a call of its own
RECURSIVE EachGroupAlone(_, _)
EachGroupAlone(fs, pos) ==
    IF fs = <<>> THEN <<>>
    ELSE check_duplicate_entries(EntriesOf(Head(fs), pos, FALSE), pos).out
             \o EachGroupAlone(Tail(fs), pos)

\* C28: in one call with position 0 the lines of a group depend only on that
\* group's ids and feature: the call returns, group after group, the lines
\* that a call with that group alone returns, whether or not a group with
\* SPRINGS in its feature came earlier.
C28_ClauseIndependence ==
    pc = "compressed" /\ raised = "none" /\ position = 0 =>
        out_list = EachGroupAlone(features_in, 0)

\* ---------------------------------------------------------------------------
\* get_member_incidences, get_element_incidences_shell

MEMBER_INCIDENCES == <<"M", "E", "M", "B", "E", "R", " ", "I", "N", "C", "I", "D", "E", "N", "C", "E", "S">>

ELEMENT_INCIDENCES_SHELL == <<"E", "L", "E", "M", "E", "N", "T", " ", "I", "N", "C", "I", "D", "E", "N", "C", "E", "S", " ", "S", "H", "E", "L", "L">>

ELEMENT_PROPERTY == <<"E", "L", "E", "M", "E", "N", "T", " ", "P", "R", "O", "P", "E", "R", "T", "Y">>

START_GROUP_DEFINITION == <<"S", "T", "A", "R", "T", " ", "G", "R", "O", "U", "P", " ", "D", "E", "F", "I", "N", "I", "T", "I", "O", "N">>

START_USER_TABLE == <<"S", "T", "A", "R", "T", " ", "U", "S", "E", "R", " ", "T", "A", "B", "L", "E">>

DEFINE_MATERIAL_START == <<"D", "E", "F", "I", "N", "E", " ", "M", "A", "T", "E", "R", "I", "A", "L", " ", "S", "T", "A", "R", "T">>

\* d[id] of a dict kept as a sequence of [id, ...]: None when id is no key
DictGet(d, id) ==
    LET known == {k \in 1..Len(d) : d[k].id = id}
    IN IF known = {} THEN None ELSE Some(d[Min(known)])

\* d[id] = value for the dicts of records
DictPut(d, id, value) ==
    LET known == {k \in 1..Len(d) : d[k].id = id}
    IN IF known = {} THEN Append(d, [id |-> id, value |-> value])
       ELSE [d EXCEPT ![Min(known)].value = value]

\* the records of one MEMBER INCIDENCES line
RECURSIVE MemberRecords(_, _, _, _)
MemberRecords(texts, k, jc, d) ==
    IF k > Len(texts) THEN [raised |-> "none", d |-> d]
    ELSE IF texts[k] = <<>> THEN MemberRecords(texts, k + 1, jc, d)
    ELSE LET toks == Split(texts[k], " ")
             o == IF Len(toks) = 4 THEN 1 ELSE 0
         IN IF Len(toks) < 3 THEN [raised |-> "IndexError", d |-> d]
            ELSE IF DictGet(jc, toks[o + 2]) = None \/ DictGet(jc, toks[o + 3]) = None
            THEN [raised |-> "KeyError", d |-> d]
            ELSE MemberRecords(texts, k + 1, jc,
                     DictPut(d, toks[o + 1],
                         [start_node |-> DictGet(jc, toks[o + 2])[1].xyz,
                          end_node |-> DictGet(jc, toks[o + 3])[1].xyz,
                          start_node_ID |-> toks[o + 2],
                          end_node_ID |-> toks[o + 3]]))

\* the inner while loop: the lines that begin with a numeric token
RECURSIVE MemberLines(_, _, _, _)
MemberLines(sd, i, jc, d) ==
    IF i > Len(sd) THEN [raised |-> "IndexError", i |-> i, d |-> d]
    ELSE IF ~IsNumeric(Split(sd[i], " ")[1]) THEN [raised |-> "none", i |-> i, d |-> d]
    ELSE LET r == MemberRecords(Split(sd[i], ";"), 1, jc, d)
         IN IF r.raised # "none" THEN [raised |-> r.raised, i |-> i, d |-> r.d]
            ELSE MemberLines(sd, i + 1, jc, r.d)

\* the outer while loop (i is 1-based)
RECURSIVE MemberScan(_, _, _, _)
MemberScan(sd, i, jc, d) ==
    IF i > Len(sd) THEN [raised |-> "none", d |-> d]
    ELSE IF sd[i] = MEMBER_INCIDENCES
    THEN IF i + 1 > Len(sd) THEN [raised |-> "IndexError", d |-> d]
         ELSE LET r == MemberLines(sd, IF sd[i + 1] = <<>> THEN i + 2 ELSE i + 1, jc, d)
              IN IF r.raised # "none" THEN [raised |-> r.raised, d |-> r.d]
                 ELSE MemberScan(sd, r.i + 1, jc, r.d)
    ELSE MemberScan(sd, i + 1, jc, d)

get_member_incidences(sd, jc, d) == MemberScan(sd, 1, jc, d)

\* list.remove(''): the first empty string is taken out, if there is one
RemoveFirstEmpty(split_list) ==
    LET empty == {k \in 1..Len(split_list) : split_list[k] = <<>>}
    IN IF empty = {} THEN split_list
       ELSE SubSeq(split_list, 1, Min(empty) - 1)
                \o SubSeq(split_list, Min(empty) + 1, Len(split_list))

\* the records of one ELEMENT INCIDENCES SHELL line
RECURSIVE ElementRecords(_, _, _)
ElementRecords(texts, k, d) ==
    IF k > Len(texts) THEN [raised |-> "none", d |-> d]
    ELSE IF texts[k] = <<>> THEN ElementRecords(texts, k + 1, d)
    ELSE LET split_list == RemoveFirstEmpty(Split(texts[k], " "))
         IN IF Len(split_list) = 4
            THEN ElementRecords(texts, k + 1,
                     DictPut(d, split_list[1],
                         [node_1 |-> split_list[2], node_2 |-> split_list[3],
                          node_3 |-> split_list[4], node_4 |-> None]))
            ELSE IF Len(split_list) < 5 THEN [raised |-> "IndexError", d |-> d]
            ELSE ElementRecords(texts, k + 1,
                     DictPut(d, split_list[1],
                         [node_1 |-> split_list[2], node_2 |-> split_list[3],
                          node_3 |-> split_list[4], node_4 |-> Some(split_list[5])]))

\* the inner while loop: it goes on while the line is neither of the two
\* keywords, or begins with a numeric token
RECURSIVE ElementLines(_, _, _)
ElementLines(sd, i, d) ==
    IF i > Len(sd) THEN [raised |-> "IndexError", i |-> i, d |-> d]
    ELSE IF ~(\/ (sd[i] # ELEMENT_PROPERTY /\ sd[i] # START_GROUP_DEFINITION)
              \/ IsNumeric(Split(sd[i], " ")[1]))
    THEN [raised |-> "none", i |-> i, d |-> d]
    ELSE LET r == ElementRecords(Split(sd[i], ";"), 1, d)
         IN IF r.raised # "none" THEN [raised |-> r.raised, i |-> i, d |-> r.d]
            ELSE ElementLines(sd, i + 1, r.d)

\* the outer while loop (i is 1-based)
RECURSIVE ElementScan(_, _, _)
ElementScan(sd, i, d) ==
    IF i > Len(sd) THEN [raised |-> "none", d |-> d]
    ELSE IF sd[i] = ELEMENT_INCIDENCES_SHELL
    THEN IF i + 1 > Len(sd) THEN [raised |-> "IndexError", d |-> d]
         ELSE LET r == ElementLines(sd, IF sd[i + 1] = <<>> THEN i + 2 ELSE i + 1, d)
              IN IF r.raised # "none" THEN [raised |-> r.raised, d |-> r.d]
                 ELSE ElementScan(sd, r.i + 1, r.d)
    ELSE ElementScan(sd, i + 1, d)

get_element_incidences_shell(sd, d) == ElementScan(sd, 1, d)

MaxSectionLines == 2

\* the record lines of the three sections, MaxSectionLines of each at most
JointSectionLines == <<<<"1", " ", "0", " ", "0", " ", "0", ";", " ", "2", " ", "1", " ", "0", " ", "0", ";", " ", "3", " ", "0", " ", "1", " ", "0", ";">>, <<"4", " ", "1", " ", "1", " ", "0">>, <<"5", " ", "2", " ", "0", " ", "0">>>>

MemberSectionLines == <<<<"1", " ", "1", " ", "2", ";", " ", "2", " ", "2", " ", "3", ";">>, <<"3", " ", "1", " ", "3">>, <<"4", " ", "2", " ", "1">>>>

ElementSectionLines == <<<<"1", " ", "1", " ", "2", " ", "3", " ", "4", ";", " ", "2", " ", "1", " ", "2", " ", "3", ";">>, <<"3", " ", "2", " ", "3", " ", "1">>, <<"4", " ", "3", " ", "2", " ", "1">>>>

\* a section of n record lines under its header; no section for n = 0
Section(header, lines, n) ==
    IF n = 0 THEN <<>> ELSE <<header>> \o SubSeq(lines, 1, n)

\* the lines that can follow a section
SectionEnds ==
    {START_USER_TABLE, DEFINE_MATERIAL_START, START_GROUP_DEFINITION,
     ELEMENT_PROPERTY, UNIT_METER_KN}

InitSection ==
    /\ pc = "written" /\ raised = "none"
    /\ \E nj \in 1..MaxSectionLines, nm \in 0..MaxSectionLines,
          ne \in 0..MaxSectionLines, e1 \in SectionEnds \cup {<<>>},
          e2 \in SectionEnds, later \in BOOLEAN :
          std_data =
              Section(JOINT_COORDINATES, JointSectionLines, nj)
              \o (IF e1 = <<>> THEN <<>> ELSE <<e1>>)
              \o Section(MEMBER_INCIDENCES, MemberSectionLines, nm)
              \o Section(ELEMENT_INCIDENCES_SHELL, ElementSectionLines, ne)
              \o <<e2>>
              \o (IF later THEN <<JOINT_COORDINATES, <<"9", " ", "1", " ", "1", " ", "1">>>> ELSE <<>>)
              \o <<FINISH>>
    /\ staad_column_limit = LIMIT /\ mesh_nodes = <<>>
    /\ row_input = <<>> /\ output_list = <<>>
    /\ IdleRange /\ IdleWrap /\ IdleAxis /\ IdleDecode /\ IdleComplete
    /\ IdleEncode /\ IdleJoin
    /\ IdleBeta

GetMemberIncidences ==
    /\ pc = "decoded" /\ raised = "none"
    /\ LET r == get_member_incidences(std_data, joint_coordinates, member_incidences)
       IN raised' = r.raised /\ member_incidences' = r.d
    /\ pc' = "members"
    /\ UNCHANGED <<rangeVars, wrapVars, packVars, jointVars, joint_coordinates,
                   direction, supports, load_items, old_doc, decodeVars,
                   completeVars, encodeVars, joinVars,
                   betaVars>>

GetElementIncidencesShell ==
    /\ pc = "members" /\ raised = "none"
    /\ LET r == get_element_incidences_shell(std_data, element_incidences_shell)
       IN raised' = r.raised /\ element_incidences_shell' = r.d
    /\ pc' = "elements"
    /\ UNCHANGED <<rangeVars, wrapVars, packVars, jointVars, axisVars, decodeVars,
                   materials, member_properties, element_properties,
                   load_combinations, warnings, encodeVars, joinVars,
                   betaVars>>

NextSection == GetJointCoordinates \/ GetMemberIncidences \/ GetElementIncidencesShell

SpecSection == InitSection /\ [][NextSection]_vars

\* the record lines of the sections under the given header: from the line
\* after each header to the line before the first one that does not begin
\* with a numeric token
RECURSIVE RecordLines(_, _, _, _)
RecordLines(sd, header, i, inside) ==
    IF i > Len(sd) THEN <<>>
    ELSE IF inside /\ IsNumeric(Split(sd[i], " ")[1])
    THEN <<sd[i]>> \o RecordLines(sd, header, i + 1, TRUE)
    ELSE RecordLines(sd, header, i + 1, sd[i] = header)

\* the ids of the records of a sequence of lines
RecordIds(lines) ==
    {SplitWS(text)[1] :
        text \in {t \in UNION {{Split(lines[k], ";")[j] :
                                       j \in 1..Len(Split(lines[k], ";"))} :
                                   k \in 1..Len(lines)} :
                     SplitWS(t) # <<>>}}

DictIds(d) == {d[k].id : k \in 1..Len(d)}

\* C23: in the three sections the first line after the header that does not
\* begin with a numeric token ends the section: whatever it holds it is not
\* parsed as a record (decoding does not fail on it), and the records decoded
\* are those of the numeric lines of every section of the file, later
\* sections included.
C23_SectionEnd ==
    /\ pc \in {"decoded", "members", "elements"} => raised = "none"
    /\ pc = "elements" /\ raised = "none" =>
           /\ DictIds(joint_coordinates)
                  = RecordIds(RecordLines(std_data, JOINT_COORDINATES, 1, FALSE))
           /\ DictIds(member_incidences)
                  = RecordIds(RecordLines(std_data, MEMBER_INCIDENCES, 1, FALSE))
           /\ DictIds(element_incidences_shell)
                  = RecordIds(RecordLines(std_data, ELEMENT_INCIDENCES_SHELL, 1, FALSE))

\* ---------------------------------------------------------------------------
\* get_member_properties

MEMBER_PROPERTY == <<"M", "E", "M", "B", "E", "R", " ", "P", "R", "O", "P", "E", "R", "T", "Y">>

END == <<"E", "N", "D">>

GENERAL == <<"G", "E", "N", "E", "R", "A", "L">>

PROFILE_POINTS == <<"P", "R", "O", "F", "I", "L", "E", "_", "P", "O", "I", "N", "T", "S">>

UPTABLE == <<"U", "P", "T", "A", "B", "L", "E">>

\* the index of the first occurrence of sub in s (sub is in s)
FirstIndex(s, sub) ==
    Min({i \in 1..(Len(s) - Len(sub) + 1) : SubSeq(s, i, i + Len(sub) - 1) = sub})

\* s.split(sep)[0]
SplitFirst(s, sep) ==
    IF Contains(s, sep) THEN SubSeq(s, 1, FirstIndex(s, sep) - 1) ELSE s

\* s.split(sep)[1]; ErrStr for the IndexError when sep is not in s
SplitSecond(s, sep) ==
    IF ~Contains(s, sep) THEN ErrStr
    ELSE SplitFirst(SubSeq(s, FirstIndex(s, sep) + Len(sep), Len(s)), sep)

\* s.split(sep)[1].split(" ")
TokensAfter(s, sep) ==
    IF SplitSecond(s, sep) = ErrStr THEN <<>> ELSE Split(SplitSecond(s, sep), " ")

\* detail_members(s) for a str s: the loop runs over the characters, none of
\* which is 'TO', so that every character is a member
DetailMembersOfStr(s) == [j \in 1..Len(s) |-> <<s[j]>>]

\* detail_members(line.split(sep)[0].split(" "))
AssignedBeam(line, sep) == detail_members(Split(SplitFirst(line, sep), " "))

\* the pairs of floats of the profile points
ProfileCoordinates(split) ==
    [j \in 1..(Len(split) \div 2) |->
        <<StrToFloat(split[2 * j - 1]), StrToFloat(split[2 * j])>>]

\* section_data += std_data[i] up to PROFILE_POINTS; j is the index of
\* PROFILE_POINTS, 0 for the IndexError at the end of the lines
RECURSIVE SectionData(_, _, _)
SectionData(sd, i, acc) ==
    IF i > Len(sd) THEN [j |-> 0, text |-> acc]
    ELSE IF sd[i] = PROFILE_POINTS THEN [j |-> i, text |-> acc]
    ELSE SectionData(sd, i + 1, acc \o sd[i])

\* profile_points += std_data[i + 1] while it begins with a digit; i is the
\* index of the last profile line, 0 for the IndexError
RECURSIVE ProfilePoints(_, _, _)
ProfilePoints(sd, i, acc) ==
    IF i + 1 > Len(sd) \/ sd[i + 1] = <<>> THEN [i |-> 0, text |-> acc]
    ELSE IF sd[i + 1][1] \in Digits THEN ProfilePoints(sd, i + 1, acc \o sd[i + 1])
    ELSE [i |-> i, text |-> acc]

\* the GENERAL branch of the user table: std_data[i] is 'GENERAL'; constants
\* holds area, depth, ... depth_of_web, the first 16 values of section_data
GeneralSection(sd, i, count, mp, table_no) ==
    IF i + 2 > Len(sd) THEN [raised |-> "IndexError", i |-> i, count |-> count, mp |-> mp]
    ELSE Once(LAMBDA s :
           IF s.j = 0 \/ Len(Split(s.text, " ")) < 16 \/ s.j + 1 > Len(sd)
           THEN [raised |-> "IndexError", i |-> i, count |-> count, mp |-> mp]
           ELSE Once(LAMBDA p :
                  IF p.i = 0 \/ p.text = <<>>
                  THEN [raised |-> "IndexError", i |-> i, count |-> count, mp |-> mp]
                  ELSE Once(LAMBDA split :
                         IF \E t \in 1..(2 * (Len(split) \div 2)) : ~IsFloat(split[t])
                         THEN [raised |-> "ValueError", i |-> i, count |-> count, mp |-> mp]
                         ELSE IF table_no = None
                         THEN [raised |-> "UnboundLocalError", i |-> i, count |-> count,
                               mp |-> mp]
                         ELSE [raised |-> "none", i |-> p.i, count |-> count + 1,
                               mp |-> DictPut(mp, count + 1,
                                         [table_no |-> table_no[1],
                                          profile_name |-> sd[i + 1],
                                          type_section |-> "user_defined",
                                          profile |-> ProfileCoordinates(split),
                                          assigned_beam |-> None,
                                          constants |-> SubSeq(Split(s.text, " "), 1, 16)])],
                         IF p.text[1] = " "
                         THEN Split(Tail(p.text), " ") ELSE Split(p.text, " ")),
                  ProfilePoints(sd, s.j + 1, sd[s.j + 1])),
           SectionData(sd, i + 3, sd[i + 2]))

\* the loop over the user table: while std_data[i] != 'END'
RECURSIVE UserTable(_, _, _, _, _)
UserTable(sd, i, count, mp, table_no) ==
    IF i > Len(sd)
    THEN [raised |-> "IndexError", i |-> i, count |-> count, mp |-> mp, table_no |-> table_no]
    ELSE IF sd[i] = END
    THEN [raised |-> "none", i |-> i, count |-> count, mp |-> mp, table_no |-> table_no]
    ELSE IF Contains(sd[i], <<"T", "A", "B", "L", "E">>)
    THEN IF Len(Split(sd[i], " ")) < 2
         THEN [raised |-> "IndexError", i |-> i, count |-> count, mp |-> mp, table_no |-> table_no]
         ELSE UserTable(sd, i + 1, count, mp, Some(Split(sd[i], " ")[2]))
    ELSE IF Contains(sd[i], UNIT) THEN UserTable(sd, i + 1, count, mp, table_no)
    ELSE IF sd[i] = GENERAL
    THEN Once(LAMBDA g :
           IF g.raised # "none"
           THEN [raised |-> g.raised, i |-> i, count |-> count, mp |-> mp,
                 table_no |-> table_no]
           ELSE UserTable(sd, g.i, g.count, g.mp, table_no),
           GeneralSection(sd, i, count, mp, table_no))
    ELSE UserTable(sd, i + 1, count, mp, table_no)

\* the digits of a name and its other characters
RECURSIVE Filter(_, _)
Filter(s, wanted) ==
    IF s = <<>> THEN <<>>
    ELSE (IF (Head(s) \in Digits) = wanted THEN <<Head(s)>> ELSE <<>>)
             \o Filter(Tail(s), wanted)

RECURSIVE ReplaceX(_)
ReplaceX(name) ==
    IF name = <<>> THEN <<>>
    ELSE <<IF Head(name) = "X" THEN "x" ELSE Head(name)>> \o ReplaceX(Tail(name))

\* the name of a predefined section: HE200A becomes HEA200, X becomes x
SectionName(name) ==
    LET last3 == SubSeq(name, Len(name) - 2, Len(name))
        vendor == \/ (Len(name) >= 3 /\ SubSeq(name, 1, 2) = <<"H", "E">> /\ name[3] \in Digits)
                  \/ (Len(name) >= 3 /\ last3 \in {<<"C", "H", "S">>, <<"R", "H", "S">>, <<"S", "H", "S">>})
    IN ReplaceX(IF vendor THEN Filter(name, FALSE) \o Filter(name, TRUE) ELSE name)

\* the result of one branch: what it does to count, to the dict and to
\* section_counter, and step, its own change of the cursor i
Branch(exc, count, mp, section_counter, step) ==
    [raised |-> exc, count |-> count, mp |-> mp,
     section_counter |-> section_counter, step |-> step]

\* a branch that adds one entry, or fails when the line has too few tokens
NewEntry(enough, count, mp, section_counter, value) ==
    IF ~enough THEN Branch("IndexError", count, mp, section_counter, 0)
    ELSE Branch("none", count + 1, DictPut(mp, count + 1, value), section_counter, -1)

\* the first entry whose table_no and profile_name are those of the
\* reference; the entries without the key table_no raise KeyError
RECURSIVE FindUserSection(_, _, _, _)
FindUserSection(mp, k, table_no, name) ==
    IF k > Len(mp) THEN [raised |-> "none", key |-> None]
    ELSE IF "table_no" \notin DOMAIN mp[k].value THEN [raised |-> "KeyError", key |-> None]
    ELSE IF mp[k].value.table_no = table_no /\ mp[k].value.profile_name = name
    THEN [raised |-> "none", key |-> Some(mp[k].id)]
    ELSE FindUserSection(mp, k + 1, table_no, name)

\* the UPTABLE branch: section_counter keeps the value of an earlier line
\* when no entry matches
UptableLine(line, count, mp, section_counter) ==
    Once(LAMBDA table_no :
      Once(LAMBDA name_of_user_section :
        IF table_no = ErrStr \/ name_of_user_section = ErrStr
        THEN Branch("IndexError", count, mp, section_counter, 0)
        ELSE Once(LAMBDA f :
               IF f.raised # "none" THEN Branch(f.raised, count, mp, section_counter, 0)
               ELSE Once(LAMBDA found :
                      IF found = None
                      THEN Branch("UnboundLocalError", count, mp, section_counter, 0)
                      ELSE Branch("none", count,
                               [k \in 1..Len(mp) |->
                                   IF mp[k].id = found[1]
                                   THEN [mp[k] EXCEPT !.value.assigned_beam =
                                            Some(DetailMembersOfStr(
                                                SplitFirst(line, <<" ", "U", "P", "T", "A", "B", "L", "E", " ">>)))]
                                   ELSE mp[k]],
                               found, 0),
                      IF f.key # None THEN f.key ELSE section_counter),
               FindUserSection(mp, 1, table_no, name_of_user_section)),
        IF table_no = ErrStr THEN ErrStr
        ELSE SplitSecond(line, <<"U", "P", "T", "A", "B", "L", "E", " ">> \o table_no \o SP)),
      IF SplitSecond(line, <<"U", "P", "T", "A", "B", "L", "E", " ">>) = ErrStr THEN ErrStr
      ELSE Split(SplitSecond(line, <<"U", "P", "T", "A", "B", "L", "E", " ">>), " ")[1])

\* the branches of the loop body for std_data[i], in their order
PropertyLine(line, count, mp, sc) ==
    LET round == TokensAfter(line, <<"P", "R", "I", "S", " ", "R", "O", "U", "N", "D", " ">>)
        pris == TokensAfter(line, <<"P", "R", "I", "S", " ">>)
        tapered == TokensAfter(line, <<"T", "A", "P", "E", "R", "E", "D", " ">>)
        table == TokensAfter(line, <<"T", "A", "B", "L", "E", " ", "S", "T", " ">>)
        has(key) == Contains(line, key)
    IN IF has(<<"P", "R", "I", "S", " ", "R", "O", "U", "N", "D">>)
       THEN NewEntry(Len(round) >= 6, count, mp, sc,
                [type_section |-> "circular_hollow_section",
                 start_diameter |-> round[2], end_diamter |-> round[4],
                 thickness |-> round[6],
                 assigned_beam |-> Some(AssignedBeam(line, <<" ", "P", "R", "I", "S", " ", "R", "O", "U", "N", "D", " ">>))])
       ELSE IF has(UPTABLE) THEN UptableLine(line, count, mp, sc)
       ELSE IF has(<<"P", "R", "I", "S">>) /\ has(<<"Y", "D">>) /\ has(<<"Z", "D">>) /\ has(<<"Y", "B">>) /\ has(<<"Z", "B">>)
       THEN NewEntry(Len(pris) >= 8, count, mp, sc,
                [type_section |-> "prismatic_tee",
                 YD |-> pris[2], ZD |-> pris[4], YB |-> pris[6], ZB |-> pris[8],
                 assigned_beam |-> Some(AssignedBeam(line, <<" ", "P", "R", "I", "S", " ">>))])
       ELSE IF has(<<"P", "R", "I", "S">>) /\ has(<<"Y", "D">>) /\ has(<<"Z", "D">>) /\ has(<<"Z", "B">>)
       THEN NewEntry(Len(pris) >= 6, count, mp, sc,
                [type_section |-> "prismatic_trapzoid",
                 YD |-> pris[2], ZD |-> pris[4], ZB |-> pris[6],
                 assigned_beam |-> Some(AssignedBeam(line, <<" ", "P", "R", "I", "S", " ">>))])
       ELSE IF has(<<"P", "R", "I", "S">>) /\ has(<<"Y", "D">>) /\ has(<<"Z", "D">>)
       THEN NewEntry(Len(pris) >= 4, count, mp, sc,
                [type_section |-> "rectangular",
                 YD |-> pris[2], ZD |-> pris[4],
                 assigned_beam |-> Some(AssignedBeam(line, <<" ", "P", "R", "I", "S", " ">>))])
       ELSE IF has(<<"P", "R", "I", "S">>) /\ has(<<"Y", "D">>)
       THEN NewEntry(Len(pris) >= 2, count, mp, sc,
                [type_section |-> "circle",
                 diameter |-> pris[2],
                 assigned_beam |-> Some(AssignedBeam(line, <<" ", "P", "R", "I", "S", " ">>))])
       ELSE IF has(<<"T", "A", "P", "E", "R", "E", "D">>)
       THEN NewEntry(Len(tapered) >= 7, count, mp, sc,
                [type_section |-> "tapered",
                 F |-> SubSeq(tapered, 1, 7),
                 assigned_beam |-> Some(AssignedBeam(line, <<" ", "T", "A", "P", "E", "R", "E", "D", " ">>))])
       ELSE IF has(<<"T", "A", "B", "L", "E", " ", "S", "T", " ", "P", "I", "P", "E">>) /\ has(<<"I", "D">>) /\ has(<<"O", "D">>)
       THEN NewEntry(TokensAfter(line, <<"O", "D", " ">>) # <<>> /\ TokensAfter(line, <<"I", "D", " ">>) # <<>>,
                count, mp, sc,
                [type_section |-> "pipe",
                 OD |-> TokensAfter(line, <<"O", "D", " ">>)[1], ID |-> TokensAfter(line, <<"I", "D", " ">>)[1],
                 assigned_beam |-> Some(AssignedBeam(line, <<" ", "T", "A", "B", "L", "E", " ", "S", "T", " ">>))])
       ELSE IF has(<<"T", "A", "B", "L", "E", " ", "S", "T">>)
       THEN NewEntry(table # <<>> /\ table[1] # <<>>, count, mp, sc,
                [type_section |-> "predefined",
                 name |-> SectionName(table[1]),
                 assigned_beam |-> Some(AssignedBeam(line, <<" ", "T", "A", "B", "L", "E", " ", "S", "T", " ">>))])
       ELSE Branch("none", count, mp, sc, -1)

\* the loop over the lines that follow MEMBER PROPERTY: while the line after
\* the cursor begins with a numeric token, i += 1, the branch, i += 1
RECURSIVE PropertyLines(_, _, _, _, _)
PropertyLines(sd, i, count, mp, sc) ==
    IF i + 1 > Len(sd)
    THEN [raised |-> "IndexError", i |-> i, count |-> count, mp |-> mp, sc |-> sc]
    ELSE IF ~IsNumeric(Split(sd[i + 1], " ")[1])
    THEN [raised |-> "none", i |-> i, count |-> count, mp |-> mp, sc |-> sc]
    ELSE Once(LAMBDA b :
           IF b.raised # "none"
           THEN [raised |-> b.raised, i |-> i, count |-> count, mp |-> b.mp, sc |-> sc]
           ELSE PropertyLines(sd, (i + 1) + b.step + 1, b.count, b.mp, b.section_counter),
           PropertyLine(sd[i + 1], count, mp, sc))

\* the outer while loop (i is 1-based); table_no and section_counter are
\* the locals that live through the call
RECURSIVE PropertyScan(_, _, _, _, _, _)
PropertyScan(sd, i, count, mp, table_no, sc) ==
    IF i > Len(sd) THEN [raised |-> "none", mp |-> mp]
    ELSE Once(LAMBDA u :
           IF u.raised # "none" THEN [raised |-> u.raised, mp |-> u.mp]
           ELSE IF Contains(sd[u.i], MEMBER_PROPERTY)
           THEN Once(LAMBDA r :
                  IF r.raised # "none" THEN [raised |-> r.raised, mp |-> r.mp]
                  ELSE PropertyScan(sd, r.i + 1, r.count, r.mp, u.table_no, r.sc),
                  PropertyLines(sd, u.i, u.count, u.mp, sc))
           ELSE PropertyScan(sd, u.i + 1, u.count, u.mp, u.table_no, sc),
           IF Contains(sd[i], START_USER_TABLE)
           THEN UserTable(sd, i + 1, count, mp, table_no)
           ELSE [raised |-> "none", i |-> i, count |-> count, mp |-> mp,
                 table_no |-> table_no])

get_member_properties(sd, mp) == PropertyScan(sd, 1, 0, mp, None, None)

MaxPropertyLines == 3

CONST_HEADER == <<"C", "O", "N", "S", "T", "A", "N", "T", "S">>

\* one user-table section under the given profile name
UserSection(name) ==
    <<GENERAL, name, <<"1", " ", "2", " ", "3", " ", "4", " ", "5", " ", "6", " ", "7", " ", "8", " ", "9", " ", "1", "0", " ", "1", "1", " ", "1", "2", " ", "1", "3", " ", "1", "4", " ", "1", "5", " ", "1", "6">>, PROFILE_POINTS,
      <<"0", " ", "0", " ", "1", " ", "0">>, <<"1", " ", "1", " ", "0", " ", "1">>>>

\* the START USER TABLE block with the sections named, none for no name
UserTableBlock(names) ==
    IF names = <<>> THEN <<>>
    ELSE <<START_USER_TABLE, <<"T", "A", "B", "L", "E", " ", "1">>, UNIT_METER_KN>>
             \o Flatten([k \in 1..Len(names) |-> UserSection(names[k])])
             \o <<END>>

\* the assignment lines a MEMBER PROPERTY section is made of
PropertyChoices ==
    {<<"1", " ", "T", "O", " ", "3", " ", "P", "R", "I", "S", " ", "Y", "D", " ", "0", ".", "5", " ", "Z", "D", " ", "0", ".", "3">>, <<"4", " ", "T", "A", "P", "E", "R", "E", "D", " ", "1", " ", "2", " ", "3", " ", "4", " ", "5", " ", "6", " ", "7">>,
     <<"5", " ", "6", " ", "T", "A", "B", "L", "E", " ", "S", "T", " ", "H", "E", "2", "0", "0", "A">>, <<"7", " ", "T", "O", " ", "9", " ", "U", "P", "T", "A", "B", "L", "E", " ", "1", " ", "A">>, <<"1", "0", " ", "U", "P", "T", "A", "B", "L", "E", " ", "1", " ", "B">>}

InitProperty ==
    /\ pc = "start" /\ raised = "none"
    /\ \E names \in {<<>>, <<<<"A">>>>, <<<<"A">>, <<"B">>>>},
          n \in 1..MaxPropertyLines :
          \E lines \in [1..n -> PropertyChoices] :
              std_data = UserTableBlock(names) \o <<MEMBER_PROPERTY>> \o lines
                             \o <<CONST_HEADER, FINISH>>
    /\ mesh_nodes = <<>>
    /\ IdleRange /\ IdleWrap /\ IdlePack /\ IdleAxis /\ IdleDecode /\ IdleComplete
    /\ IdleEncode /\ IdleJoin
    /\ IdleBeta

GetMemberProperties ==
    /\ pc = "start"
    /\ LET r == get_member_properties(std_data, member_properties)
       IN raised' = r.raised /\ member_properties' = r.mp
    /\ pc' = "properties"
    /\ UNCHANGED <<rangeVars, wrapVars, packVars, jointVars, axisVars, decodeVars,
                   element_incidences_shell, materials, element_properties,
                   load_combinations, warnings, encodeVars, joinVars,
                   betaVars>>

NextProperty == GetMemberProperties

SpecProperty == InitProperty /\ [][NextProperty]_vars

\* the assignment lines of the file, in file order: the lines that begin
\* with a numeric token and hold the keyword (UPTABLE) or not (inline)
AssignmentLines(uptable) ==
    SelectSeq(std_data,
        LAMBDA line : /\ IsNumeric(Split(line, " ")[1])
                      /\ \E key \in {<<" ", "P", "R", "I", "S", " ">>, <<" ", "T", "A", "P", "E", "R", "E", "D", " ">>, <<" ", "T", "A", "B", "L", "E", " ", "S", "T", " ">>, <<" ", "U", "P", "T", "A", "B", "L", "E", " ">>} :
                             Contains(line, key)
                      /\ Contains(line, <<" ", "U", "P", "T", "A", "B", "L", "E", " ">>) = uptable)

\* the ids of an assignment line, expanded
LineMembers(line) ==
    detail_members(Split(
        SplitFirst(line, CHOOSE key \in {<<" ", "P", "R", "I", "S", " ">>, <<" ", "T", "A", "P", "E", "R", "E", "D", " ">>, <<" ", "T", "A", "B", "L", "E", " ", "S", "T", " ">>,
                                        <<" ", "U", "P", "T", "A", "B", "L", "E", " ">>} : Contains(line, key)), " "))

UserEntries ==
    SelectSeq(member_properties, LAMBDA e : e.value.type_section = "user_defined")

InlineEntries ==
    SelectSeq(member_properties, LAMBDA e : e.value.type_section # "user_defined")

\* the reference line names the table number and the profile name of e
Refers(line, e) ==
    TokensAfter(line, <<" ", "U", "P", "T", "A", "B", "L", "E", " ">>)
        = <<e.value.table_no>> \o Split(e.value.profile_name, " ")

\* C24: every UPTABLE line that matches no parsed user-table entry makes
\* decoding fail, also after a line that did resolve; when all resolve, each
\* entry holds the expanded ids of the (last) line that refers to it, and an
\* entry no line refers to holds none.
C24_UptableResolution ==
    pc = "properties" =>
        LET refs == AssignmentLines(TRUE)
        IN /\ (\E k \in 1..Len(refs) :
                   \A j \in 1..Len(UserEntries) : ~Refers(refs[k], UserEntries[j]))
                  => raised # "none"
           /\ raised = "none" =>
                  \A j \in 1..Len(UserEntries) :
                      LET mine == {k \in 1..Len(refs) : Refers(refs[k], UserEntries[j])}
                      IN UserEntries[j].value.assigned_beam
                             = IF mine = {} THEN None
                               ELSE Some(LineMembers(refs[Max(mine)]))

\* C29: every assignment line of the section is examined once, in file
\* order, whatever the line before it was: the entries of the inline variants
\* are, in order, those of the PRIS, TAPERED and TABLE ST lines of the file.
C29_NoAssignmentLineSkipped ==
    pc = "properties" /\ raised = "none" =>
        LET inline == AssignmentLines(FALSE)
        IN /\ Len(InlineEntries) = Len(inline)
           /\ \A k \in 1..Len(inline) :
                  k <= Len(InlineEntries) =>
                      InlineEntries[k].value.assigned_beam = Some(LineMembers(inline[k]))

\* ---------------------------------------------------------------------------
\* get_element_properties

THICKNESS == <<"T", "H", "I", "C", "K", "N", "E", "S", "S">>

\* node1 .. node4 after the branch for the values of one record; the locals
\* of the call keep what an earlier record left in them (None: unbound)
ThicknessNodes(values, nodes) ==
    IF Len(values) \in {2, 3, 4}
    THEN [j \in 1..4 |-> IF j <= Len(values) THEN Some(StrToFloat(values[j])) ELSE nodes[j]]
    ELSE [j \in 1..4 |-> Some(StrToFloat(values[1]))]

\* the inner while loop: the lines that begin with a numeric token
RECURSIVE ThicknessLines(_, _, _, _, _)
ThicknessLines(sd, i, count, nodes, d) ==
    IF i > Len(sd) THEN [raised |-> "IndexError", i |-> i, nodes |-> nodes, d |-> d]
    ELSE IF ~IsNumeric(Split(sd[i], " ")[1])
    THEN [raised |-> "none", i |-> i, nodes |-> nodes, d |-> d]
    ELSE Once(LAMBDA values :
           IF values = <<>>
           THEN [raised |-> "IndexError", i |-> i, nodes |-> nodes, d |-> d]
           ELSE IF \E j \in 1..(IF Len(values) \in {2, 3, 4} THEN Len(values) ELSE 1) :
                       ~IsFloat(values[j])
           THEN [raised |-> "ValueError", i |-> i, nodes |-> nodes, d |-> d]
           ELSE Once(LAMBDA n :
                  IF \E j \in 1..4 : n[j] = None
                  THEN [raised |-> "UnboundLocalError", i |-> i, nodes |-> n, d |-> d]
                  ELSE ThicknessLines(sd, i + 1, count + 1, n,
                           DictPut(d, <<"t", "h", "i", "c", "k", "n", "e", "s", "s", " ">> \o IntToStr(count + 1),
                               [node_1 |-> n[1][1], node_2 |-> n[2][1],
                                node_3 |-> n[3][1], node_4 |-> n[4][1],
                                assigned_plate |->
                                    AssignedBeam(sd[i], <<" ", "T", "H", "I", "C", "K", "N", "E", "S", "S", " ">>)])),
                  ThicknessNodes(values, nodes)),
           TokensAfter(sd[i], <<" ", "T", "H", "I", "C", "K", "N", "E", "S", "S", " ">>))

\* the outer while loop (i is 1-based)
RECURSIVE ThicknessScan(_, _, _, _)
ThicknessScan(sd, i, nodes, d) ==
    IF i > Len(sd) THEN [raised |-> "none", d |-> d]
    ELSE IF Contains(sd[i], ELEMENT_PROPERTY)
    THEN Once(LAMBDA r :
           IF r.raised # "none" THEN [raised |-> r.raised, d |-> r.d]
           ELSE ThicknessScan(sd, r.i + 1, r.nodes, r.d),
           ThicknessLines(sd, i + 1, 0, nodes, d))
    ELSE ThicknessScan(sd, i + 1, nodes, d)

get_element_properties(sd, d) == ThicknessScan(sd, 1, [j \in 1..4 |-> None], d)

MaxThicknessLines == 3

ThicknessChoices ==
    {<<"1", " ", "T", "O", " ", "4", " ", "T", "H", "I", "C", "K", "N", "E", "S", "S", " ", "0", ".", "2">>, <<"5", " ", "T", "H", "I", "C", "K", "N", "E", "S", "S", " ", "0", ".", "3", " ", "0", ".", "4">>,
     <<"6", " ", "T", "H", "I", "C", "K", "N", "E", "S", "S", " ", "0", ".", "5", " ", "0", ".", "6", " ", "0", ".", "7">>, <<"7", " ", "8", " ", "T", "H", "I", "C", "K", "N", "E", "S", "S", " ", "0", ".", "1", " ", "0", ".", "2", " ", "0", ".", "3", " ", "0", ".", "4">>}

InitThickness ==
    /\ pc = "start" /\ raised = "none"
    /\ \E n \in 1..MaxThicknessLines :
          \E lines \in [1..n -> ThicknessChoices] :
              std_data = <<ELEMENT_PROPERTY>> \o lines \o <<FINISH>>
    /\ mesh_nodes = <<>>
    /\ IdleRange /\ IdleWrap /\ IdlePack /\ IdleAxis /\ IdleDecode /\ IdleComplete
    /\ IdleEncode /\ IdleJoin
    /\ IdleBeta

GetElementProperties ==
    /\ pc = "start"
    /\ LET r == get_element_properties(std_data, element_properties)
       IN raised' = r.raised /\ element_properties' = r.d
    /\ pc' = "thickness"
    /\ UNCHANGED <<rangeVars, wrapVars, packVars, jointVars, axisVars, decodeVars,
                   element_incidences_shell, materials, member_properties,
                   load_combinations, warnings, encodeVars, joinVars,
                   betaVars>>

NextThickness == GetElementProperties

SpecThickness == InitThickness /\ [][NextThickness]_vars

\* the record lines of the section, in file order
ThicknessRecords == SelectSeq(std_data, LAMBDA line : IsNumeric(Split(line, " ")[1]))

\* the corners of a record: one value goes to all four corners, 2, 3 or 4
\* values go to the corners listed, in order, and the others have none
OwnCorners(line) ==
    LET values == TokensAfter(line, <<" ", "T", "H", "I", "C", "K", "N", "E", "S", "S", " ">>)
    IN [j \in 1..4 |->
           IF Len(values) = 1 THEN Some(StrToFloat(values[1]))
           ELSE IF j <= Len(values) THEN Some(StrToFloat(values[j])) ELSE None]

\* C26: every record is determined by its own line: one value for the four
\* corners, 2, 3 or 4 values for the corners listed in order, and no corner
\* holds a value of an earlier record (a corner that is not listed has none).
C26_ThicknessFanOut ==
    pc = "thickness" /\ raised = "none" =>
        /\ Len(element_properties) = Len(ThicknessRecords)
        /\ \A k \in 1..Len(ThicknessRecords) :
               k <= Len(element_properties) =>
                   LET e == element_properties[k].value
                       own == OwnCorners(ThicknessRecords[k])
                   IN \A j \in 1..4 :
                          own[j] = IF j = 1 THEN Some(e.node_1)
                                   ELSE IF j = 2 THEN Some(e.node_2)
                                   ELSE IF j = 3 THEN Some(e.node_3)
                                   ELSE Some(e.node_4)

\* ---------------------------------------------------------------------------
\* get_supports

SUPPORT == <<"S", "U", "P", "P", "O", "R", "T">>

FIXED_BUT == <<" ", "F", "I", "X", "E", "D", " ", "B", "U", "T", " ">>

PINNED == <<" ", "P", "I", "N", "N", "E", "D">>

FIXED == <<" ", "F", "I", "X", "E", "D">>

\* the digits s begins with
RECURSIVE LeadingDigits(_)
LeadingDigits(s) ==
    IF s = <<>> \/ Head(s) \notin Digits THEN <<>>
    ELSE <<Head(s)>> \o LeadingDigits(Tail(s))

\* re.findall("(K..\s\d+)", rest): the digits of every match, in order
SpringMatches(rest, key) ==
    LET at == {p \in 1..(Len(rest) - Len(key) - 1) :
                  /\ SubSeq(rest, p, p + Len(key)) = key \o SP
                  /\ rest[p + Len(key) + 1] \in Digits}
    IN [k \in 1..Cardinality(at) |->
           LeadingDigits(SubSeq(rest, AscSeq(at)[k] + Len(key) + 1, Len(rest)))]

\* the IndexError of findall(...)[0]: the keyword without its number
NoStiffness(rest, dof) ==
    Contains(rest, <<"K">> \o dof) /\ SpringMatches(rest, <<"K">> \o dof) = <<>>

\* one of KFX .. KMZ: the str after the keyword, the int 0 for the released
\* direction without a stiffness, None otherwise
Stiffness(rest, dof) ==
    IF Contains(rest, <<"K">> \o dof)
    THEN Some([type |-> "str", text |-> SpringMatches(rest, <<"K">> \o dof)[1]])
    ELSE IF Contains(rest, dof) THEN Some([type |-> "int", text |-> <<"0">>])
    ELSE None

Dofs == <<<<"F", "X">>, <<"F", "Y">>, <<"F", "Z">>, <<"M", "X">>, <<"M", "Y">>, <<"M", "Z">>>>

\* the body of the inner loop for one line: the dict, count, and the extra
\* step of the cursor in the last branch
SupportLine(line, count, s) ==
    IF Contains(line, FIXED_BUT)
    THEN Once(LAMBDA rest :
           IF \E j \in 1..6 : NoStiffness(rest, Dofs[j])
           THEN [raised |-> "IndexError", count |-> count + 1, s |-> s, step |-> 0]
           ELSE [raised |-> "none", count |-> count + 1, step |-> 0,
                 s |-> [s EXCEPT !["FIXED BUT"] =
                           DictPut(@, count + 1,
                               [K |-> [j \in 1..6 |-> Stiffness(rest, Dofs[j])],
                                assigned_node |-> AssignedBeam(line, FIXED_BUT)])]],
           SplitSecond(line, FIXED_BUT))
    ELSE IF Contains(line, PINNED)
    THEN [raised |-> "none", count |-> count, step |-> 0,
          s |-> ("PINNED" :> AssignedBeam(line, PINNED)) @@ s]
    ELSE IF Contains(line, FIXED)
    THEN [raised |-> "none", count |-> count, step |-> 0,
          s |-> ("FIXED" :> AssignedBeam(line, FIXED)) @@ s]
    ELSE [raised |-> "none", count |-> count, step |-> 1, s |-> s]

\* the inner while loop: the lines that begin with a numeric token
RECURSIVE SupportLines(_, _, _, _)
SupportLines(sd, i, count, s) ==
    IF i > Len(sd) THEN [raised |-> "IndexError", i |-> i, count |-> count, s |-> s]
    ELSE IF ~IsNumeric(Split(sd[i], " ")[1])
    THEN [raised |-> "none", i |-> i, count |-> count, s |-> s]
    ELSE Once(LAMBDA b :
           IF b.raised # "none"
           THEN [raised |-> b.raised, i |-> i, count |-> b.count, s |-> b.s]
           ELSE SupportLines(sd, i + b.step + 1, b.count, b.s),
           SupportLine(sd[i], count, s))

\* the outer while loop (i is 1-based); re.search('^SUPPORT', line)
RECURSIVE SupportScan(_, _, _, _)
SupportScan(sd, i, count, s) ==
    IF i > Len(sd) THEN [raised |-> "none", s |-> s]
    ELSE IF SubSeq(sd[i], 1, Len(SUPPORT)) = SUPPORT
    THEN Once(LAMBDA r :
           IF r.raised # "none" THEN [raised |-> r.raised, s |-> r.s]
           ELSE SupportScan(sd, r.i + 1, r.count, r.s),
           SupportLines(sd, i + 1, count, s))
    ELSE SupportScan(sd, i + 1, count, s)

\* self.supports is the empty dict of __init__ when get_supports is called
get_supports(sd) == SupportScan(sd, 1, 0, "FIXED BUT" :> <<>>)

MaxSupportLines == 3

SupportLineChoices ==
    {<<"1", " ", "2", " ", "F", "I", "X", "E", "D">>, <<"3", " ", "F", "I", "X", "E", "D">>, <<"4", " ", "T", "O", " ", "6", " ", "P", "I", "N", "N", "E", "D">>, <<"7", " ", "P", "I", "N", "N", "E", "D">>,
     <<"8", " ", "F", "I", "X", "E", "D", " ", "B", "U", "T", " ", "F", "X", " ", "M", "Z", " ", "K", "F", "Y", " ", "1", "0", "0">>}

InitSupport ==
    /\ pc = "start" /\ raised = "none"
    /\ \E n \in 1..MaxSupportLines :
          \E lines \in [1..n -> SupportLineChoices] :
              std_data = <<<<"S", "U", "P", "P", "O", "R", "T", "S">>>> \o lines \o <<FINISH>>
    /\ mesh_nodes = <<>>
    /\ IdleRange /\ IdleWrap /\ IdlePack /\ IdleAxis /\ IdleDecode /\ IdleComplete
    /\ IdleEncode /\ IdleJoin
    /\ IdleBeta

GetSupports ==
    /\ pc = "start"
    /\ LET r == get_supports(std_data)
       IN raised' = r.raised /\ supports' = r.s
    /\ pc' = "supports"
    /\ UNCHANGED <<rangeVars, wrapVars, packVars, jointVars, joint_coordinates,
                   direction, member_incidences, load_items, old_doc, decodeVars,
                   completeVars, encodeVars, joinVars,
                   betaVars>>

NextSupport == GetSupports

SpecSupport == InitSupport /\ [][NextSupport]_vars

\* the joints of the lines of one kind (FIXED, not FIXED BUT; or PINNED)
KindJoints(kind) ==
    UNION {{AssignedBeam(std_data[k], kind)[j] :
                j \in 1..Len(AssignedBeam(std_data[k], kind))} :
           k \in {k \in 1..Len(std_data) :
                     /\ IsNumeric(Split(std_data[k], " ")[1])
                     /\ Contains(std_data[k], kind)
                     /\ ~Contains(std_data[k], FIXED_BUT)}}

\* the joints decoded under a key of supports, none when the key is absent
DecodedJoints(key) ==
    IF key \in DOMAIN supports
    THEN {supports[key][j] : j \in 1..Len(supports[key])} ELSE {}

\* C30: after get_supports every joint of every FIXED line is in the FIXED
\* list decoded and every joint of every PINNED line in the PINNED list, also
\* when the file holds several lines of one kind.
C30_SupportsKeepAllJoints ==
    pc = "supports" /\ raised = "none" =>
        /\ KindJoints(FIXED) \subseteq DecodedJoints("FIXED")
        /\ KindJoints(PINNED) \subseteq DecodedJoints("PINNED")

\* ---------------------------------------------------------------------------
\* beta_angle_to_staad, get_beta_angles

BETA == <<"B", "E", "T", "A">>

MATERIAL == <<"M", "A", "T", "E", "R", "I", "A", "L">>

\* the global direction of a member from its vector: beta_angle_to_staad
\* takes the direction of the line, get_beta_angles start node - end node;
\* None for a member that does not span in a global axis
MemberDirection(vector, reversed) ==
    LET pos == IF reversed THEN "-" ELSE "+"
        neg == IF reversed THEN "+" ELSE "-"
    IN IF Cardinality({j \in 1..3 : vector[j] = 0}) # 2 THEN None
       ELSE IF vector[1] > 0 THEN Some(<<pos, "X">>)
       ELSE IF vector[1] < 0 THEN Some(<<neg, "X">>)
       ELSE IF vector[2] > 0 THEN Some(<<pos, "Y">>)
       ELSE IF vector[2] < 0 THEN Some(<<neg, "Y">>)
       ELSE IF vector[3] > 0 THEN Some(<<pos, "Z">>)
       ELSE Some(<<neg, "Z">>)

\* the branch of four tests on the local z-axis: None where no clause is
\* written
BetaChoice(first, none_if_positive, second, positive_270, z) ==
    IF z[first] # 0
    THEN IF (z[first] > 0) = none_if_positive THEN None ELSE Some(<<"B", "E", "T", "A", " ", "1", "8", "0", " ", "M", "E", "M", "B", " ">>)
    ELSE IF z[second] # 0
    THEN IF (z[second] > 0) = positive_270
         THEN Some(<<"B", "E", "T", "A", " ", "2", "7", "0", " ", "M", "E", "M", "B", " ">>) ELSE Some(<<"B", "E", "T", "A", " ", "9", "0", " ", "M", "E", "M", "B", " ">>)
    ELSE None

\* beta_text for a member direction and a local z-axis
BetaText(member_direction, local_z_axis) ==
    IF member_direction = <<"+", "Z">> THEN BetaChoice(1, FALSE, 2, TRUE, local_z_axis)
    ELSE IF member_direction = <<"-", "Z">> THEN BetaChoice(1, TRUE, 2, TRUE, local_z_axis)
    ELSE IF member_direction = <<"+", "Y">> THEN BetaChoice(3, TRUE, 1, FALSE, local_z_axis)
    ELSE IF member_direction = <<"-", "Y">> THEN BetaChoice(3, TRUE, 1, TRUE, local_z_axis)
    ELSE IF member_direction = <<"+", "X">> THEN BetaChoice(3, TRUE, 2, TRUE, local_z_axis)
    ELSE BetaChoice(3, FALSE, 2, TRUE, local_z_axis)

\* beta_dict[member_no] = beta_text, and the list of value + str(key)
RECURSIVE BetaDict(_, _)
BetaDict(ls, d) ==
    IF ls = <<>> THEN d
    ELSE Once(LAMBDA dir :
           IF dir = None \/ BetaText(dir[1], Head(ls).local_z_axis) = None
           THEN BetaDict(Tail(ls), d)
           ELSE BetaDict(Tail(ls),
                    DictPut(d, Head(ls).id, BetaText(dir[1], Head(ls).local_z_axis)[1])),
           MemberDirection(Head(ls).vector, FALSE))

beta_angle_to_staad(ls) ==
    [k \in 1..Len(BetaDict(ls, <<>>)) |->
        BetaDict(ls, <<>>)[k].value \o IntToStr(BetaDict(ls, <<>>)[k].id)]

\* temp_beta_angle_dict[beta_angle].extend(ids), or the new key
ExtendKey(d, key, ids) ==
    IF DictGet(d, key) = None THEN DictPut(d, key, ids)
    ELSE DictPut(d, key, DictGet(d, key)[1].value \o ids)

\* the loop over the lines of the CONSTANTS section; beta_angle is None
\* while no BETA line was read
RECURSIVE BetaLines(_, _, _, _, _)
BetaLines(sd, i, beta_counter, beta_angle, d) ==
    IF i > Len(sd) \/ Split(sd[i], " ")[1] = <<>>
    THEN [raised |-> "IndexError", i |-> i, d |-> d]
    ELSE Once(LAMBDA toks :
           IF toks[1] = MATERIAL THEN BetaLines(sd, i + 1, 0, beta_angle, d)
           ELSE IF toks[1] = BETA
           THEN IF Len(toks) < 3 \/ ~Contains(sd[i], <<" ", "M", "E", "M", "B", " ">>)
                THEN [raised |-> "IndexError", i |-> i, d |-> d]
                ELSE BetaLines(sd, i + 1, 1, Some(Join(SubSeq(toks, 1, 3), SP)),
                         ExtendKey(d, Join(SubSeq(toks, 1, 3), SP),
                             detail_members(Split(SplitSecond(sd[i], <<" ", "M", "E", "M", "B", " ">>), " "))))
           ELSE IF toks[1][1] \in Digits
           THEN IF beta_counter = 1
                THEN BetaLines(sd, i + 1, 1, beta_angle,
                         ExtendKey(d, beta_angle[1], detail_members(toks)))
                ELSE BetaLines(sd, i + 1, beta_counter, beta_angle, d)
           ELSE [raised |-> "none", i |-> i, d |-> d],
           Split(sd[i], " "))

\* the outer while loop (i is 1-based)
RECURSIVE BetaScan(_, _, _)
BetaScan(sd, i, d) ==
    IF i > Len(sd) THEN [raised |-> "none", d |-> d]
    ELSE IF Contains(sd[i], CONST_HEADER)
    THEN Once(LAMBDA r :
           IF r.raised # "none" THEN r ELSE BetaScan(sd, r.i + 1, r.d),
           BetaLines(sd, i + 1, 0, None, d))
    ELSE BetaScan(sd, i + 1, d)

\* the mutant: the rows for 90 and 270 of a member in -Y are exchanged
vector_list_swapped(member_direction, angle_of_beta) ==
    LET row == IF member_direction = <<"+", "Z">>
               THEN <<<<-1, 0, 0>>, <<0, -1, 0>>, <<1, 0, 0>>, <<0, 1, 0>>>>
               ELSE IF member_direction = <<"-", "Z">>
               THEN <<<<1, 0, 0>>, <<0, -1, 0>>, <<-1, 0, 0>>, <<0, 1, 0>>>>
               ELSE IF member_direction = <<"+", "Y">>
               THEN <<<<0, 0, 1>>, <<1, 0, 0>>, <<0, 0, -1>>, <<-1, 0, 0>>>>
               ELSE IF member_direction = <<"-", "Y">>
               THEN <<<<0, 0, 1>>, <<1, 0, 0>>, <<0, 0, -1>>, <<-1, 0, 0>>>>
               ELSE IF member_direction = <<"+", "X">>
               THEN <<<<0, 0, 1>>, <<0, -1, 0>>, <<0, 0, -1>>, <<0, 1, 0>>>>
               ELSE <<<<0, 0, -1>>, <<0, -1, 0>>, <<0, 0, 1>>, <<0, 1, 0>>>>
    IN IF angle_of_beta = <<"0">> THEN Some(row[1])
       ELSE IF angle_of_beta = <<"9", "0">> THEN Some(row[2])
       ELSE IF angle_of_beta = <<"1", "8", "0">> THEN Some(row[3])
       ELSE IF angle_of_beta = <<"2", "7", "0">> THEN Some(row[4])
       ELSE None

\* vector_list for a member direction and the angle of the clause: a row of
\* the table holds the vectors for 0, 90, 180 and 270
vector_list(member_direction, angle_of_beta) ==
    LET row == IF member_direction = <<"+", "Z">>
               THEN <<<<-1, 0, 0>>, <<0, -1, 0>>, <<1, 0, 0>>, <<0, 1, 0>>>>
               ELSE IF member_direction = <<"-", "Z">>
               THEN <<<<1, 0, 0>>, <<0, -1, 0>>, <<-1, 0, 0>>, <<0, 1, 0>>>>
               ELSE IF member_direction = <<"+", "Y">>
               THEN <<<<0, 0, 1>>, <<1, 0, 0>>, <<0, 0, -1>>, <<-1, 0, 0>>>>
               ELSE IF member_direction = <<"-", "Y">>
               THEN <<<<0, 0, 1>>, <<-1, 0, 0>>, <<0, 0, -1>>, <<1, 0, 0>>>>
               ELSE IF member_direction = <<"+", "X">>
               THEN <<<<0, 0, 1>>, <<0, -1, 0>>, <<0, 0, -1>>, <<0, 1, 0>>>>
               ELSE <<<<0, 0, -1>>, <<0, -1, 0>>, <<0, 0, 1>>, <<0, 1, 0>>>>
    IN IF angle_of_beta = <<"0">> THEN Some(row[1])
       ELSE IF angle_of_beta = <<"9", "0">> THEN Some(row[2])
       ELSE IF angle_of_beta = <<"1", "8", "0">> THEN Some(row[3])
       ELSE IF angle_of_beta = <<"2", "7", "0">> THEN Some(row[4])
       ELSE None

\* the loop over the members of one key of temp_beta_angle_dict
RECURSIVE BetaMembers(_, _, _, _, _)
BetaMembers(key, value, k, mi, b) ==
    IF k > Len(value) THEN [raised |-> "none", b |-> b]
    ELSE IF "-" \in {value[k][j] : j \in 1..Len(value[k])}
            \/ " " \in {value[k][j] : j \in 1..Len(value[k])}
    THEN BetaMembers(key, value, k + 1, mi, b)
    ELSE IF DictGet(mi, value[k]) = None THEN [raised |-> "KeyError", b |-> b]
    ELSE Once(LAMBDA dir :
           IF dir = None \/ vector_list(dir[1], Split(key, " ")[2]) = None
           THEN BetaMembers(key, value, k + 1, mi, b)
           ELSE BetaMembers(key, value, k + 1, mi,
                    DictPut(b, value[k], vector_list(dir[1], Split(key, " ")[2])[1])),
           MemberDirection(
               [j \in 1..3 |-> DictGet(mi, value[k])[1].value.start_node[j]
                                   - DictGet(mi, value[k])[1].value.end_node[j]],
               TRUE))

\* the loop over the keys of temp_beta_angle_dict
RECURSIVE BetaKeys(_, _, _, _)
BetaKeys(d, k, mi, b) ==
    IF k > Len(d) THEN [raised |-> "none", b |-> b]
    ELSE Once(LAMBDA r :
           IF r.raised # "none" THEN r ELSE BetaKeys(d, k + 1, mi, r.b),
           BetaMembers(d[k].id, d[k].value, 1, mi, b))

get_beta_angles(sd, mi, b) ==
    Once(LAMBDA t :
      IF t.raised # "none" THEN [raised |-> t.raised, b |-> b]
      ELSE BetaKeys(t.d, 1, mi, b),
      BetaScan(sd, 1, <<>>))

MaxBeams == 2

\* the six unit vectors along the global axes
UnitVectors ==
    {<<1, 0, 0>>, <<-1, 0, 0>>, <<0, 1, 0>>, <<0, -1, 0>>, <<0, 0, 1>>, <<0, 0, -1>>}

Dot(u, v) == u[1] * v[1] + u[2] * v[2] + u[3] * v[3]

\* a member in a global direction with its local z-axis along another axis
Beams == {b \in [vector : UnitVectors, local_z_axis : UnitVectors] :
             Dot(b.vector, b.local_z_axis) = 0}

\* member id from node 1 at the origin to node id + 1, two units further in
\* the direction of the member
BeamIncidence(id, vector) ==
    [id |-> IntToStr(id),
     value |-> [start_node |-> <<0, 0, 0>>,
                end_node |-> <<2 * vector[1], 2 * vector[2], 2 * vector[3]>>,
                start_node_ID |-> <<"1">>, end_node_ID |-> IntToStr(id + 1)]]

InitBeta ==
    /\ pc = "start" /\ raised = "none"
    /\ \E n \in 1..MaxBeams : \E bs \in [1..n -> Beams] :
          /\ collections_lines =
                 [k \in 1..n |-> [id |-> k, vector |-> bs[k].vector,
                                  local_z_axis |-> bs[k].local_z_axis]]
          /\ member_incidences = [k \in 1..n |-> BeamIncidence(k, bs[k].vector)]
    /\ beta_angles = <<>>
    /\ joint_coordinates = <<>> /\ direction = "Z" /\ supports = <<>>
    /\ load_items = <<>> /\ old_doc = <<>>
    /\ IdleRange /\ IdleWrap /\ IdlePack /\ IdleJoint /\ IdleDecode /\ IdleComplete
    /\ IdleEncode /\ IdleJoin

\* _fem_create_model_staad, the CONSTANTS block: the beta clauses, then the
\* material clauses
WriteBetaAngles ==
    /\ pc = "start"
    /\ std_data' = <<CONST_HEADER>>
                       \o check_duplicate_entries(
                              beta_angle_to_staad(collections_lines), -1).out
                       \o <<<<"M", "A", "T", "E", "R", "I", "A", "L", " ", "S", "T", "E", "E", "L", " ", "A", "L", "L">>, FINISH>>
    /\ pc' = "written"
    /\ UNCHANGED <<raised, rangeVars, wrapVars, packVars, mesh_nodes, axisVars,
                   decodeVars, completeVars, encodeVars, joinVars, betaVars>>

GetBetaAngles ==
    /\ pc = "written"
    /\ LET r == get_beta_angles(std_data, member_incidences, beta_angles)
       IN raised' = r.raised /\ beta_angles' = r.b
    /\ pc' = "decoded"
    /\ UNCHANGED <<rangeVars, wrapVars, packVars, jointVars, axisVars, decodeVars,
                   completeVars, encodeVars, joinVars, collections_lines>>

NextBeta == WriteBetaAngles \/ GetBetaAngles

SpecBeta == InitBeta /\ [][NextBeta]_vars

\* the name of the direction of a unit vector, as get_beta_angles names it
DirectionName(vector) == MemberDirection(vector, FALSE)[1]

BetaAnglesOfTable == {<<"0">>, <<"9", "0">>, <<"1", "8", "0">>, <<"2", "7", "0">>}

\* the angle a clause text stands for; no clause stands for 0
AngleOfText(beta_text) ==
    IF beta_text = None THEN <<"0">> ELSE Split(beta_text[1], " ")[2]

\* C25: the table of get_beta_angles gives for each of the 24 combinations
\* of direction and angle a unit vector perpendicular to the member, four
\* different vectors for the four angles of a direction, and it inverts
\* beta_angle_to_staad: the clause written for a member and its local z-axis
\* (none for 0) is decoded to that axis.
C25_BetaAngleTable ==
    /\ \A d \in UnitVectors : \A a \in BetaAnglesOfTable :
           /\ vector_list(DirectionName(d), a) # None
           /\ vector_list(DirectionName(d), a)[1] \in UnitVectors
           /\ Dot(vector_list(DirectionName(d), a)[1], d) = 0
           /\ AngleOfText(BetaText(DirectionName(d), vector_list(DirectionName(d), a)[1])) = a
           /\ \A a2 \in BetaAnglesOfTable \ {a} :
                  vector_list(DirectionName(d), a2) # vector_list(DirectionName(d), a)
    /\ pc = "decoded" =>
           /\ raised = "none"
           /\ \A k \in 1..Len(collections_lines) :
                  LET l == collections_lines[k]
                  IN IF BetaText(DirectionName(l.vector), l.local_z_axis) = None
                     THEN /\ DictGet(beta_angles, IntToStr(l.id)) = None
                          /\ vector_list(DirectionName(l.vector), <<"0">>)
                                 = Some(l.local_z_axis)
                     ELSE /\ DictGet(beta_angles, IntToStr(l.id)) # None
                          /\ DictGet(beta_angles, IntToStr(l.id))[1].value
                                 = l.local_z_axis

\* a member along -Y with a clause for 270 is decoded next to a member
\* without clause
C25_Witness ==
    /\ pc = "decoded" /\ raised = "none"
    /\ Len(collections_lines) = 2
    /\ collections_lines[1].vector = <<0, -1, 0>>
    /\ collections_lines[1].local_z_axis = <<1, 0, 0>>
    /\ Contains(std_data[2], <<"B", "E", "T", "A", " ", "2", "7", "0", " ", "M", "E", "M", "B", " ", "1">>)
    /\ DictGet(beta_angles, <<"1">>) # None
    /\ DictGet(beta_angles, <<"1">>)[1].value = <<1, 0, 0>>
    /\ DictGet(beta_angles, <<"2">>) = None

====
